---- MODULE Spec2Model ----
(***************************************************************************)
(* Report generation pipeline of the PharmaCopilot reporting service:      *)
(*   - GeminiClient.generate_comprehensive_report (retry, backoff,         *)
(*     compact mode)                src/llm_integration/gemini_client.py   *)
(*   - BaseReportGenerator.collect_current_data                            *)
(*                                  src/report_generators/base_generator.py*)
(*   - QualityControlReportGenerator.generate_report and its helpers       *)
(*                                  src/report_generators/quality_report.py*)
(*   - the collectors' collect_data src/data_collectors/*.py               *)
(***************************************************************************)
EXTENDS Integers, Sequences, FiniteSets, TLC

VARIABLES
    \* ---- GeminiClient ----
    client_available,   \* is_available(): client is not None and model is not None
    gc_pc,              \* position inside generate_comprehensive_report
    use_compact_mode,   \* parameter of the running frame
    attempt,            \* loop variable of "for attempt in range(max_retries)"
    gc_calls,           \* log of self.model.generate_content invocations
    gc_sleeps,          \* log of time.sleep(delay) calls
    gc_switches,        \* log of the recursive calls with use_compact_mode=True
    error_str,          \* str(e) of the most recent exception of the model invocation
    report_type,        \* parameter report_type of the call
    gc_result,          \* value returned by the top-level call
    \* ---- generate_report ----
    pc,                 \* position inside generate_report
    src_i,              \* index of the loop over data_sources
    req,                \* per source: notsent / outstanding / done
    sent,               \* per source: what the upstream answered
    api_data,           \* dict built by collect_current_data
    collected_data,     \* dict built by _collect_comprehensive_data
    metrics,            \* result of _extract_real_metrics
    narrative,          \* which path produced report_content
    report_content,     \* sections returned by _generate_llm_report or the template
    full_report_content,\* result of _build_comprehensive_report_content
    report,             \* value returned by generate_report
    raised,             \* an exception left generate_report
    top_exc,            \* str(e) of the exception that reached the outermost handler
    \* ---- collectors ----
    col_pc,             \* per collector variant: position inside collect_data
    col_parts,          \* per collector variant: entries of the endpoints fetched so far
    col_record,         \* per collector variant: record returned by collect_data
    col_raised,         \* per collector variant: an exception left collect_data
    \* ---- KnowledgeBaseManager ----
    embedding_model,    \* self.embedding_model is not None
    chroma_client,      \* self.client is not None (then self.collections is filled)
    kb_store,           \* the documents of the persistent vector store
    kb_next_id,         \* number of the next document added
    kb_pc,              \* "open" until a search or a cleanup has been called
    kb_result,          \* the last operation called and what it returned
    kb_raised,          \* an exception left the last operation
    \* ---- history of a collector ----
    hs_collector,       \* the collector object the calls are made on
    hs_started,         \* number of collect_data calls started on it
    hs_inflight,        \* calls that are suspended at an await
    hs_history,         \* recent_classifications / recent_actions
    hs_completed,       \* records of the calls completed since the last clear_history, in completion order
    hs_last,            \* the call completed last and the record it returned
    hs_clock,           \* datetime.now(), counted in events on the collector
    hs_ts,              \* per started call: the 'timestamp' of its record
    \* ---- emoji cleaner ----
    em_input,           \* the report structure handed to clean_report_content
    em_once,            \* clean_report_content(em_input)
    em_twice,           \* clean_report_content(em_once)
    em_pc,              \* "input", "once", "twice"
    \* ---- HTTP API ----
    api_module,         \* the application that serves the request: report_api or simple_api
    generator_ready,    \* startup_event constructed the QualityControlReportGenerator
    request_type,       \* request.report_type
    api_pc,             \* position inside the endpoint function generate_report
    http_status,        \* status code of the response, 0 while there is none
    envelope,           \* JSON body of a 200 response
    \* ---- _parse_llm_content ----
    ps_content,         \* the parameter content, as its lines
    ps_lines,           \* lines of the content after _clean_duplicate_titles
    ps_i,               \* index of the loop "for line in lines"
    current_section,    \* local variable of _parse_llm_content
    current_content,    \* local variable of _parse_llm_content
    sections,           \* the dict that is returned
    ps_pc               \* "clean", "scan", "final", "done"

gcVars  == <<client_available, gc_pc, use_compact_mode, attempt, gc_calls, gc_sleeps,
             gc_switches, error_str, report_type, gc_result>>
grVars  == <<pc, src_i, req, sent, api_data, collected_data, metrics, narrative,
             report_content, full_report_content, report, raised, top_exc>>
colVars == <<col_pc, col_parts, col_record, col_raised>>
kbVars  == <<embedding_model, chroma_client, kb_store, kb_next_id, kb_pc, kb_result, kb_raised>>
hsVars  == <<hs_collector, hs_started, hs_inflight, hs_history, hs_completed, hs_last,
             hs_clock, hs_ts>>
emVars  == <<em_input, em_once, em_twice, em_pc>>
apiVars == <<api_module, generator_ready, request_type, api_pc, http_status, envelope>>
psVars  == <<ps_content, ps_lines, ps_i, current_section, current_content, sections, ps_pc>>
extVars == <<kbVars, hsVars, emVars, apiVars, psVars>>
vars    == <<gcVars, grVars, colVars, extVars>>

----------------------------------------------------------------------------
(* GeminiClient.generate_comprehensive_report                               *)

max_retries == 3
base_delay  == 15

\* 2 ** n
RECURSIVE Pow2(_)
Pow2(n) == IF n = 0 THEN 1 ELSE 2 * Pow2(n - 1)

\* str(e) of an exception raised by the model invocation, reduced to the two
\* substrings the handler looks for.
ErrorTexts == [has429 : BOOLEAN, hasQuota : BOOLEAN]

\* "429" in error_str or "quota" in error_str.lower()
IsRateLimitAlways(e) == TRUE
IsRateLimit(e) == e.has429 \/ e.hasQuota

\* delay = base_delay * (2 ** attempt)
BackoffDelayLinear(a) == base_delay * (a + 2)
BackoffDelay(a) == base_delay * Pow2(a)

NoError == [has429 |-> FALSE, hasQuota |-> FALSE]

\* keys of report_specific, and a report type it does not know
ReportTypes == {"quality_control", "batch_record", "excellence", "compliance", "other"}

\* Texts returned by response.text (empty when response.text is falsy)
ResponseTexts == {"", "text"}

\* _generate_fallback_content(report_type): a fixed text block titled by the report type
_generate_fallback_content(rt) == [fallback |-> TRUE, text |-> rt]
LLMText(t) == [fallback |-> FALSE, text |-> t]
NoContent == LLMText("")

NoResult == [returned |-> FALSE, is_none |-> FALSE, status |-> "", error |-> "", content |-> NoContent]
\* the function ends without a return statement
NoneResult == [returned |-> TRUE, is_none |-> TRUE, status |-> "", error |-> "", content |-> NoContent]
ErrorResult(msg, rt) ==
    [returned |-> TRUE, is_none |-> FALSE, status |-> "error", error |-> msg,
     content |-> _generate_fallback_content(rt)]
SuccessResult(text) ==
    [returned |-> TRUE, is_none |-> FALSE, status |-> "success", error |-> "", content |-> LLMText(text)]

\* cap of the invocation log (the code stops at 2 * max_retries)
MaxCalls == 8

\* value of the function after "break" leaves the retry loop (lines 120, 124, 125)
AfterBreak(rt) == NoneResult

\* the branch taken by the handler of a rate-limit error (lines 109-120)
RateLimitBranchAlwaysCompact(a, compact) ==
    IF a < max_retries - 1 THEN "retry"
    ELSE IF a = max_retries - 1 THEN "compact"
    ELSE "break"
RateLimitBranch(a, compact) ==
    IF a < max_retries - 1 THEN "retry"
    ELSE IF ~compact /\ a = max_retries - 1 THEN "compact"
    ELSE "break"

\* if not self.is_available(): return error result with fallback content
GC_Entry ==
    /\ gc_pc = "entry"
    /\ IF ~client_available
          THEN /\ gc_result' = ErrorResult("Gemini client not available", report_type)
               /\ gc_pc' = "returned"
          ELSE /\ gc_pc' = "build"
               /\ UNCHANGED gc_result
    /\ UNCHANGED <<client_available, use_compact_mode, attempt, gc_calls, gc_sleeps,
                   gc_switches, error_str, report_type>>
    /\ UNCHANGED <<grVars, colVars, extVars>>

\* _build_rich_context, _get_advanced_system_prompt, _build_comprehensive_prompt
\* inside the outer try; an exception there is handled by lines 126-132
GC_BuildPrompt ==
    /\ gc_pc = "build"
    /\ \E throws \in BOOLEAN :
         IF throws
            THEN /\ gc_result' = ErrorResult("prompt error", report_type)
                 /\ gc_pc' = "returned"
                 /\ UNCHANGED attempt
            ELSE /\ gc_pc' = "attempt"
                 /\ attempt' = 0
                 /\ UNCHANGED gc_result
    /\ UNCHANGED <<client_available, use_compact_mode, gc_calls, gc_sleeps,
                   gc_switches, error_str, report_type>>
    /\ UNCHANGED <<grVars, colVars, extVars>>

Mode == IF use_compact_mode THEN "compact" ELSE "full"

\* one iteration of the retry loop whose model invocation succeeds (lines 82-103)
GC_InvokeSuccess ==
    /\ gc_pc = "attempt"
    /\ Len(gc_calls) < MaxCalls
    /\ \E text \in ResponseTexts :
         /\ gc_calls' = Append(gc_calls, [mode |-> Mode, attempt |-> attempt, outcome |-> "success"])
         /\ gc_result' = SuccessResult(text)
         /\ gc_pc' = "returned"
    /\ UNCHANGED <<client_available, use_compact_mode, attempt, gc_sleeps,
                   gc_switches, error_str, report_type>>
    /\ UNCHANGED <<grVars, colVars, extVars>>

\* one iteration of the retry loop whose model invocation raises (lines 105-124)
GC_InvokeError ==
    /\ gc_pc = "attempt"
    /\ Len(gc_calls) < MaxCalls
    /\ \E e \in ErrorTexts :
         /\ gc_calls' = Append(gc_calls, [mode |-> Mode, attempt |-> attempt, outcome |-> "exception"])
         /\ error_str' = e
         /\ IF IsRateLimit(e)
               THEN CASE RateLimitBranch(attempt, use_compact_mode) = "retry" ->
                           /\ gc_sleeps' = Append(gc_sleeps, [mode |-> Mode, after |-> attempt,
                                                               callno |-> Len(gc_calls) + 1,
                                                               delay |-> BackoffDelay(attempt)])
                           /\ attempt' = attempt + 1
                           /\ UNCHANGED <<gc_pc, use_compact_mode, gc_result, gc_switches>>
                      [] RateLimitBranch(attempt, use_compact_mode) = "compact" ->
                           \* return self.generate_comprehensive_report(..., use_compact_mode=True)
                           /\ use_compact_mode' = TRUE
                           /\ gc_switches' = Append(gc_switches, [callno |-> Len(gc_calls) + 1, error |-> e])
                           /\ gc_pc' = "entry"
                           /\ UNCHANGED <<attempt, gc_sleeps, gc_result>>
                      [] OTHER ->
                           /\ gc_result' = AfterBreak(report_type)
                           /\ gc_pc' = "returned"
                           /\ UNCHANGED <<attempt, gc_sleeps, use_compact_mode, gc_switches>>
               ELSE /\ gc_result' = AfterBreak(report_type)
                    /\ gc_pc' = "returned"
                    /\ UNCHANGED <<attempt, gc_sleeps, use_compact_mode, gc_switches>>
    /\ UNCHANGED <<client_available, report_type>>
    /\ UNCHANGED <<grVars, colVars, extVars>>


----------------------------------------------------------------------------
(* BaseReportGenerator.collect_current_data                                 *)

\* data_sources, in the order of the list
data_sources == <<"forecasting", "classification", "quality", "rl_actions">>
SourceNames == {data_sources[i] : i \in 1..Len(data_sources)}

\* value of one key of a JSON object: the key is missing, a number (in
\* hundredths: Num(5) is 0.05), or a value that is not a number
Missing == [t |-> "missing", n |-> 0]
Num(n) == [t |-> "num", n |-> n]
NotNumber == [t |-> "str", n |-> 0]

\* JSON bodies an upstream can answer with: a JSON object, a JSON number
\* (truthy, not a container), a falsy value (null, {}, [], 0), or a non-empty
\* JSON array. Of an object, the keys the report reads as numbers or
\* classes: defect_probability and quality_class ("" when the key is missing)
NoPayload == [shape |-> "none", val |-> 0, defect_probability |-> Missing, quality_class |-> ""]
Object(dp, qc) == [shape |-> "dict", val |-> 1, defect_probability |-> dp, quality_class |-> qc]
Scalar == [shape |-> "scalar", val |-> 5, defect_probability |-> Missing, quality_class |-> ""]
Empty == [shape |-> "empty", val |-> 0, defect_probability |-> Missing, quality_class |-> ""]
Array == [shape |-> "list", val |-> 1, defect_probability |-> Missing, quality_class |-> ""]
Payloads == {Object(Num(5), "High"), Scalar, Empty}

\* What the upstream does with one request
Answers ==
    {[kind |-> "ok", status |-> 200, payload |-> p] : p \in Payloads}
    \cup {[kind |-> "non200", status |-> 500, payload |-> NoPayload],
          [kind |-> "exception", status |-> 0, payload |-> NoPayload],
          [kind |-> "badjson", status |-> 200, payload |-> NoPayload]}
NoAnswer == [kind |-> "none", status |-> 0, payload |-> NoPayload]

Absent == [kind |-> "absent", payload |-> NoPayload, error |-> ""]
PayloadEntry(p) == [kind |-> "payload", payload |-> p, error |-> ""]
ErrorEntry(msg) == [kind |-> "error", payload |-> NoPayload, error |-> msg]

\* the body of the loop over data_sources (lines 42-52): the value stored
\* under collected_data[source_name]
SourceEntryDropsFailure(ans) ==
    IF ans.kind = "ok" THEN PayloadEntry(ans.payload) ELSE Absent
SourceEntry(ans) ==
    IF ans.kind = "ok" THEN PayloadEntry(ans.payload)
    ELSE IF ans.kind = "non200" THEN ErrorEntry("HTTP 500")
    ELSE IF ans.kind = "badjson" THEN ErrorEntry("JSONDecodeError")
    ELSE ErrorEntry("TimeoutError")

\* "for source_name, url in data_sources: async with session.get(url)":
\* the request to a source is issued when the loop has reached it
MayIssueConcurrently(s) == req[s] = "notsent"
MayIssue(s) == src_i <= Len(data_sources) /\ s = data_sources[src_i] /\ req[s] = "notsent"

\* collect_current_data returns after the loop has gone through every source
LoopDoneAfterFirst == \E s \in SourceNames : req[s] = "done"
LoopDone == \A s \in SourceNames : req[s] = "done"

\* session.get(url) is issued
CC_Request(s) ==
    /\ pc = "collect"
    /\ MayIssue(s)
    /\ req' = [req EXCEPT ![s] = "outstanding"]
    /\ UNCHANGED <<pc, src_i, sent, api_data, collected_data, metrics, narrative, report, raised, top_exc>>
    /\ UNCHANGED <<report_content, full_report_content>>
    /\ UNCHANGED <<gcVars, colVars, extVars>>

\* the awaited response (or failure) of the outstanding request arrives
CC_Respond(s) ==
    /\ pc = "collect"
    /\ req[s] = "outstanding"
    /\ \E ans \in Answers :
         /\ sent' = [sent EXCEPT ![s] = ans]
         /\ api_data' = [api_data EXCEPT ![s] = SourceEntry(ans)]
    /\ req' = [req EXCEPT ![s] = "done"]
    /\ src_i' = src_i + 1
    /\ UNCHANGED <<pc, collected_data, metrics, narrative, report, raised, top_exc>>
    /\ UNCHANGED <<report_content, full_report_content>>
    /\ UNCHANGED <<gcVars, colVars, extVars>>

----------------------------------------------------------------------------
(* QualityControlReportGenerator                                            *)

NoCollected == [entries |-> [s \in SourceNames |-> Absent], collection_errors |-> <<>>]

\* "X data not available" is appended when the key is missing from api_data
MissingMessage(s) ==
    CASE s = "classification" -> "Classification data not available"
      [] s = "forecasting" -> "Forecasting data not available"
      [] s = "quality" -> "Quality data not available"
      [] OTHER -> "RL data not available"

\* order of the four "if key in api_data" blocks (lines 116-138)
MapOrder == <<"classification", "forecasting", "quality", "rl_actions">>

RECURSIVE MissingErrors(_, _)
MissingErrors(data, i) ==
    IF i > Len(MapOrder) THEN <<>>
    ELSE (IF data[MapOrder[i]].kind = "absent" THEN <<MissingMessage(MapOrder[i])>> ELSE <<>>)
         \o MissingErrors(data, i + 1)

\* _collect_comprehensive_data: the mapping of api_data (lines 103-140)
_collect_comprehensive_data(data) ==
    [entries |-> [s \in SourceNames |-> data[s]],
     collection_errors |-> MissingErrors(data, 1)]

\* truth value of collected_data.get(key)
Truthy(e) == e.kind = "error" \/ (e.kind = "payload" /\ e.payload.shape # "empty")
\* "'error' not in x" raises TypeError when x is not a container
MembershipRaises(e) == e.kind = "payload" /\ e.payload.shape = "scalar"
\* collected_data.get(key) and 'error' not in collected_data[key]
MarkedSuccessSkipsErrorTest(e) == Truthy(e)
MarkedSuccess(e) == Truthy(e) /\ e.kind # "error"

\* isinstance(x, dict); the error entry {'error': ...} is a dict as well
IsDict(e) == e.kind = "error" \/ (e.kind = "payload" /\ e.payload.shape = "dict")
\* class_data.get("defect_probability", 0.0)
GetDefectProbability(e) ==
    IF e.payload.defect_probability = Missing THEN Num(0) ELSE e.payload.defect_probability
\* quality_data.get("quality_class", "unknown")
GetQualityClass(e) == IF e.payload.quality_class = "" THEN "unknown" ELSE e.payload.quality_class

\* lines 175-181: the key set in metrics["defect_rates"] ("" for none)
DefectRates(dp) ==
    IF dp.t # "num" THEN ""
    ELSE IF dp.n > 60 THEN "high_risk"
    ELSE IF dp.n > 30 THEN "medium_risk"
    ELSE "low_risk"

\* line 201, in hundredths
QualityScore(quality_class) ==
    IF quality_class = "High" THEN 90
    ELSE IF quality_class = "Medium" THEN 70
    ELSE IF quality_class = "Low" THEN 40
    ELSE 0

\* initial values of the fields (lines 149-158); metrics has no
\* "defect_probability" key until line 186
NoDefectFields == [total_predictions |-> 0, defect_rates |-> "", defect_probability |-> Missing]
NoQualityScores == [present |-> FALSE, overall_score |-> 0, batch_quality |-> ""]

\* lines 165-187
ClassificationFields(e) ==
    IF MarkedSuccess(e) /\ IsDict(e)
       THEN LET defect_prob == GetDefectProbability(e)
            IN [total_predictions |-> IF defect_prob.t = "num" THEN 1 ELSE 0,
                defect_rates |-> DefectRates(defect_prob),
                defect_probability |-> defect_prob]
       ELSE NoDefectFields

\* lines 190-208
QualityFields(e) ==
    IF MarkedSuccess(e) /\ IsDict(e)
       THEN [present |-> TRUE, overall_score |-> QualityScore(GetQualityClass(e)),
             batch_quality |-> GetQualityClass(e)]
       ELSE NoQualityScores

\* lines 211-225 and 228-251: metrics["forecast_accuracy"] and
\* metrics["rl_performance"] are filled
FilledFrom(e) == MarkedSuccess(e) /\ IsDict(e)

\* order of the four "Process ... data" blocks of _extract_real_metrics
ExtractOrder == <<"classification", "quality", "forecasting", "rl_actions">>
total_sources == 4

RECURSIVE CountSuccess(_, _)
CountSuccess(cd, i) ==
    IF i > Len(ExtractOrder) THEN 0
    ELSE (IF MarkedSuccess(cd.entries[ExtractOrder[i]]) THEN 1 ELSE 0) + CountSuccess(cd, i + 1)

\* lines 259-266
OverallStatusIgnoresErrors(successful_collections, error_count) ==
    IF successful_collections >= 3 THEN "healthy"
    ELSE IF successful_collections >= 2 THEN "degraded"
    ELSE "critical"
OverallStatus(successful_collections, error_count) ==
    IF successful_collections = total_sources /\ error_count = 0 THEN "healthy"
    ELSE IF successful_collections >= 3 THEN (IF error_count <= 1 THEN "healthy" ELSE "degraded")
    ELSE IF successful_collections >= 2 THEN "degraded"
    ELSE "critical"

NoMetrics == [error |-> "", collection_success_rate |-> 0, successful_sources |-> 0,
              collection_errors |-> 0, overall_status |-> "none",
              total_predictions |-> 0, defect_rates |-> "", defect_probability |-> Missing,
              quality_scores |-> NoQualityScores, forecast_accuracy |-> FALSE,
              rl_performance |-> FALSE]

\* the dict returned by the handler (lines 279-291)
ExtractionFailed(msg) ==
    [error |-> msg, collection_success_rate |-> 0, successful_sources |-> 0,
     collection_errors |-> 1, overall_status |-> "critical",
     total_predictions |-> 0, defect_rates |-> "", defect_probability |-> Missing,
     quality_scores |-> NoQualityScores, forecast_accuracy |-> FALSE,
     rl_performance |-> FALSE]

\* _extract_real_metrics (lines 146-291); the rate K/4*100 is exact in floating point
_extract_real_metrics(cd) ==
    IF \E s \in SourceNames : MembershipRaises(cd.entries[s])
       THEN ExtractionFailed("TypeError")
       ELSE LET k == CountSuccess(cd, 1)
                e == Len(cd.collection_errors)
                c == ClassificationFields(cd.entries["classification"])
            IN [error |-> "", collection_success_rate |-> (k * 100) \div total_sources,
                successful_sources |-> k, collection_errors |-> e,
                overall_status |-> OverallStatus(k, e),
                total_predictions |-> c.total_predictions,
                defect_rates |-> c.defect_rates,
                defect_probability |-> c.defect_probability,
                quality_scores |-> QualityFields(cd.entries["quality"]),
                forecast_accuracy |-> FilledFrom(cd.entries["forecasting"]),
                rl_performance |-> FilledFrom(cd.entries["rl_actions"])]

\* collected_data.get(key): the keys of collected_data are the four source
\* names (besides "timestamp" and "collection_errors"); any other key gives None
CollectedGet(cd, key) == IF key \in SourceNames THEN cd.entries[key] ELSE Absent

\* the keys of source_mapping (lines 1476-1481) and of the loop of
\* _create_data_summary (line 1443)
source_mapping == {"classification_data", "forecasting_data", "quality_data", "rl_data"}

\* the source each service of source_mapping stands for
SourceOfService(key) ==
    CASE key = "classification_data" -> "classification"
      [] key = "forecasting_data" -> "forecasting"
      [] key = "quality_data" -> "quality"
      [] OTHER -> "rl_actions"

\* _get_data_source_info (lines 1472-1489), keyed by the key of the service
_get_data_source_info(cd) ==
    [key \in source_mapping |->
        IF Truthy(CollectedGet(cd, key)) THEN "Available" ELSE "Unavailable"]

\* _create_data_summary (lines 1432-1452): summary["sources_successful"]
_create_data_summary(cd) ==
    Cardinality({key \in source_mapping : Truthy(CollectedGet(cd, key))})

NoDataSources == [key \in source_mapping |-> ""]

NoReport ==
    [kind |-> "none", status |-> "", error_message |-> "", narrative |-> "none",
     executive_summary |-> "", data_sources |-> NoDataSources, sources_successful |-> 0]
\* the dict built at lines 67-85 (it has no "status" key): of report_content
\* rc and collected_data cd
NormalReport(n, rc, cd) ==
    [kind |-> "normal", status |-> "", error_message |-> "", narrative |-> n,
     executive_summary |-> rc.executive_summary,
     data_sources |-> _get_data_source_info(cd),
     sources_successful |-> _create_data_summary(cd)]
\* _generate_emergency_report (lines 1742-1776); it has neither
\* "data_sources" nor a raw data summary
_generate_emergency_report(msg) ==
    [kind |-> "emergency", status |-> "error", error_message |-> msg, narrative |-> "emergency",
     executive_summary |-> "Report generation failed due to system error",
     data_sources |-> NoDataSources, sources_successful |-> 0]

\* the outermost "except Exception as e" of generate_report (lines 93-96)
TopLevelHandlerReraises(msg) == [raised |-> TRUE, report |-> NoReport]
TopLevelHandler(msg) == [raised |-> FALSE, report |-> _generate_emergency_report(msg)]

\* "except Exception as e" around _generate_llm_report (lines 56-58): where
\* generate_report continues after the LLM attempt has failed
AfterLLMFailurePropagates == "toplevel"
AfterLLMFailure == "template"

\* _generate_llm_report (lines 293-318): TRUE when it raises for this result of
\* the client. result.get on None raises AttributeError; a status other than
\* "success" raises Exception("LLM generation failed: ...")
LLMReportRaises(result) == result.is_none \/ result.status # "success"

----------------------------------------------------------------------------
(* The template report (_generate_enhanced_template_report) and the LLM     *)
(* report: the sections of report_content                                   *)

\* a number written in a text or held by the metrics, in hundredths
Hundredths(n) == 100 * n

\* sum(metrics["defect_rates"].values()): extraction sets one key to 1
TotalDefects(m) == IF m.defect_rates # "" THEN 1 ELSE 0

\* lines 847-856: defect_rate = total_defects / total_predictions, in hundredths
DefectRate(m) ==
    IF m.defect_rates # ""
       THEN (IF m.total_predictions > 0
                THEN (TotalDefects(m) * 100) \div m.total_predictions
                ELSE 0)
       ELSE 0

\* lines 830-861: the deductions from compliance_score = 100
ComplianceScore(m) ==
    100 - (IF m.collection_success_rate < 95 THEN 15 ELSE 0)
        - (IF m.quality_scores.present /\ m.quality_scores.overall_score < 80 THEN 20 ELSE 0)
        - (IF DefectRate(m) > 5 THEN 25 ELSE 0)
        - (IF m.collection_errors > 3 THEN 10 ELSE 0)

\* lines 864-879
ComplianceStatus(compliance_score) ==
    IF compliance_score >= 90 THEN "FULLY COMPLIANT"
    ELSE IF compliance_score >= 75 THEN "SUBSTANTIALLY COMPLIANT"
    ELSE IF compliance_score >= 60 THEN "PARTIALLY COMPLIANT"
    ELSE "NON-COMPLIANT"

\* the numbers the compliance section writes: the score "of 100", the
\* regulations "21 CFR Part 11" and "ICH Q7" of the framework evaluation, and
\* per compliance issue the value and the limit it is held against
ComplianceNumbers(m) ==
    {Hundredths(ComplianceScore(m)), Hundredths(100), Hundredths(21), Hundredths(11), Hundredths(7)}
    \cup (IF m.collection_success_rate < 95
             THEN {Hundredths(m.collection_success_rate), Hundredths(95)} ELSE {})
    \cup (IF m.quality_scores.present /\ m.quality_scores.overall_score < 80
             THEN {m.quality_scores.overall_score, 80} ELSE {})
    \cup (IF DefectRate(m) > 5 THEN {DefectRate(m), 5} ELSE {})
    \cup (IF m.collection_errors > 3 THEN {Hundredths(m.collection_errors)} ELSE {})

NoCompliance == [compliance_score |-> 0, status |-> "", process_validation |-> "", numbers |-> {}]

\* _generate_detailed_compliance_assessment (lines 828-911)
_generate_detailed_compliance_assessment(m) ==
    [compliance_score |-> ComplianceScore(m),
     status |-> ComplianceStatus(ComplianceScore(m)),
     process_validation |-> IF DefectRate(m) <= 5 THEN "Compliant" ELSE "Non-Compliant",
     numbers |-> ComplianceNumbers(m)]

\* the risk factors of lines 919-988: <<name, score, metrics the description quotes>>
RiskFactors(m) ==
    (IF m.collection_success_rate < 60
        THEN {<<"CRITICAL DATA LOSS RISK", 25, {"collection_success_rate"}>>}
     ELSE IF m.collection_success_rate < 80
        THEN {<<"MODERATE DATA RELIABILITY RISK", 15, {"collection_success_rate"}>>}
     ELSE {})
    \cup
    (IF m.quality_scores.present /\ m.quality_scores.overall_score < 60
        THEN {<<"HIGH QUALITY FAILURE RISK", 30, {"overall_score"}>>}
     ELSE IF m.quality_scores.present /\ m.quality_scores.overall_score < 80
        THEN {<<"ELEVATED QUALITY RISK", 20, {"overall_score"}>>}
     ELSE {})
    \cup
    (IF m.defect_rates # "" /\ TotalDefects(m) > 15
        THEN {<<"SYSTEMATIC DEFECT RISK", 25, {"defect_rates"}>>}
     ELSE IF m.defect_rates # "" /\ TotalDefects(m) > 8
        THEN {<<"MODERATE DEFECT ACCUMULATION RISK", 15, {"defect_rates"}>>}
     ELSE {})
    \cup
    (IF m.overall_status = "critical" \/ m.collection_errors > 10
        THEN {<<"CRITICAL SYSTEM FAILURE RISK", 35, {"collection_errors", "overall_status"}>>}
     ELSE IF m.overall_status = "degraded" \/ m.collection_errors > 5
        THEN {<<"SYSTEM RELIABILITY RISK", 20, {"collection_errors", "overall_status"}>>}
     ELSE {})

\* sum(factor["score"] for factor in risk_factors)
RECURSIVE SumScores(_)
SumScores(factors) ==
    IF factors = {} THEN 0
    ELSE LET f == CHOOSE x \in factors : TRUE
         IN f[2] + SumScores(factors \ {f})

\* lines 994-1009
RiskLevel(overall_risk_score) ==
    IF overall_risk_score >= 60 THEN "CRITICAL"
    ELSE IF overall_risk_score >= 40 THEN "HIGH"
    ELSE IF overall_risk_score >= 20 THEN "MODERATE"
    ELSE "LOW"

\* the value of a metric a risk description quotes, in hundredths
QuotedValue(m, name) ==
    CASE name = "collection_success_rate" -> {Hundredths(m.collection_success_rate)}
      [] name = "overall_score" -> {m.quality_scores.overall_score}
      [] name = "defect_rates" -> {Hundredths(TotalDefects(m))}
      [] name = "collection_errors" -> {Hundredths(m.collection_errors)}
      [] OTHER -> {}

NoRisk == [risk_level |-> "", overall_risk_score |-> 0, quotes |-> {}, numbers |-> {}]

\* _generate_comprehensive_risk_assessment (lines 913-1040): the level, the
\* score "of 100", the metrics the factor descriptions quote and the
\* numbers written (the scores and the quoted values)
_generate_comprehensive_risk_assessment(m) ==
    LET factors == RiskFactors(m)
        quotes == UNION {f[3] : f \in factors}
    IN [risk_level |-> RiskLevel(SumScores(factors)),
        overall_risk_score |-> SumScores(factors),
        quotes |-> quotes,
        numbers |-> {Hundredths(SumScores(factors)), Hundredths(100)}
                    \cup {Hundredths(f[2]) : f \in factors}
                    \cup UNION {QuotedValue(m, name) : name \in quotes}]

\* the numbers held by the metrics dict, in hundredths. Of forecast_accuracy
\* and rl_performance the fixed values 0.85, 0.8 and 0.75 (lines 218, 245,
\* 246); the values copied from the payloads of these two sources are not
\* listed
SnapshotNumbers(m) ==
    {Hundredths(m.collection_success_rate), Hundredths(m.total_predictions),
     Hundredths(m.collection_errors)}
    \cup (IF m.error = "" THEN {Hundredths(m.successful_sources), Hundredths(total_sources)} ELSE {})
    \cup (IF m.defect_probability.t = "num" THEN {m.defect_probability.n} ELSE {})
    \cup (IF m.defect_rates # "" THEN {Hundredths(1)} ELSE {})
    \cup (IF m.quality_scores.present THEN {m.quality_scores.overall_score} ELSE {})
    \cup (IF m.forecast_accuracy THEN {85} ELSE {})
    \cup (IF m.rl_performance THEN {80, 75} ELSE {})

NoReportContent ==
    [kind |-> "none", executive_summary |-> "", compliance_status |-> NoCompliance,
     risk_assessment |-> NoRisk]

\* the dict returned at lines 533-540; the executive summary is a text that
\* is never empty
TemplateContent(m) ==
    [kind |-> "template", executive_summary |-> "PHARMACEUTICAL MANUFACTURING QUALITY CONTROL ANALYSIS",
     compliance_status |-> _generate_detailed_compliance_assessment(m),
     risk_assessment |-> _generate_comprehensive_risk_assessment(m)]

\* _generate_emergency_template_content (lines 1125-1144): fixed texts
_generate_emergency_template_content ==
    [kind |-> "template_emergency", executive_summary |-> "EMERGENCY REPORT GENERATION",
     compliance_status |-> NoCompliance, risk_assessment |-> NoRisk]

\* _parse_llm_content on the text of the LLM (lines 320-402): an executive
\* summary that is still empty after parsing is set to the first 500
\* characters of the text (lines 385-386), so it is empty exactly when the
\* text is; the handler (lines 391-402) puts the whole text there
LLMContent(text, parse_throws) ==
    [kind |-> IF parse_throws THEN "llm_unparsed" ELSE "llm", executive_summary |-> text,
     compliance_status |-> NoCompliance, risk_assessment |-> NoRisk]

\* "{defect_prob:.1%}" (line 562) raises for a defect_probability that is
\* not a number; the handler of line 543 returns the emergency content
TemplateRaises(m) == m.defect_probability.t = "str"

----------------------------------------------------------------------------
(* generate_report                                                          *)

\* generate_report is entered: _collect_comprehensive_data starts collect_current_data
GR_Start ==
    /\ pc = "start"
    /\ pc' = "collect"
    /\ UNCHANGED <<src_i, req, sent, api_data, collected_data, metrics, narrative, report, raised, top_exc>>
    /\ UNCHANGED <<report_content, full_report_content>>
    /\ UNCHANGED <<gcVars, colVars, extVars>>

\* collect_current_data returns and its result is mapped (lines 113-140)
GR_Collected ==
    /\ pc = "collect"
    /\ LoopDone
    /\ collected_data' = _collect_comprehensive_data(api_data)
    /\ pc' = "extract"
    /\ UNCHANGED <<src_i, req, sent, api_data, metrics, narrative, report, raised, top_exc>>
    /\ UNCHANGED <<report_content, full_report_content>>
    /\ UNCHANGED <<gcVars, colVars, extVars>>

\* metrics = self._extract_real_metrics(collected_data), then the test of line 51
GR_Extract ==
    /\ pc = "extract"
    /\ metrics' = _extract_real_metrics(collected_data)
    /\ IF client_available
          THEN /\ pc' = "llm"
               /\ gc_pc' = "entry"
          ELSE /\ pc' = "template"
               /\ UNCHANGED gc_pc
    /\ UNCHANGED <<src_i, req, sent, api_data, collected_data, narrative, report, raised, top_exc>>
    /\ UNCHANGED <<report_content, full_report_content>>
    /\ UNCHANGED <<client_available, use_compact_mode, attempt, gc_calls, gc_sleeps,
                   gc_switches, error_str, report_type, gc_result>>
    /\ UNCHANGED <<colVars, extVars>>

\* generate_comprehensive_report has returned to _generate_llm_report
GR_LLMReturn ==
    /\ pc = "llm"
    /\ gc_pc = "returned"
    /\ IF LLMReportRaises(gc_result)
          THEN IF AfterLLMFailure = "template"
                  THEN /\ pc' = "template"
                       /\ UNCHANGED <<narrative, report_content, report, raised, top_exc>>
                  ELSE /\ pc' = "done"
                       /\ report' = TopLevelHandler("LLM generation failed").report
                       /\ raised' = TopLevelHandler("LLM generation failed").raised
                       /\ top_exc' = "LLM generation failed"
                       /\ UNCHANGED <<narrative, report_content>>
          ELSE \* _parse_llm_content; its own handler returns the unparsed content
               \E parse_throws \in BOOLEAN :
                 /\ narrative' = IF parse_throws THEN "llm_unparsed" ELSE "llm"
                 /\ report_content' = LLMContent(gc_result.content.text, parse_throws)
                 /\ pc' = "assemble"
                 /\ UNCHANGED <<report, raised, top_exc>>
    /\ UNCHANGED <<src_i, req, sent, api_data, collected_data, metrics>>
    /\ UNCHANGED full_report_content
    /\ UNCHANGED <<gcVars, colVars, extVars>>

\* _generate_enhanced_template_report (lines 506-545); its own handler
\* returns _generate_emergency_template_content
GR_Template ==
    /\ pc = "template"
    /\ \E throws \in (IF TemplateRaises(metrics) THEN {TRUE} ELSE BOOLEAN) :
         /\ narrative' = IF throws THEN "template_emergency_content" ELSE "template"
         /\ report_content' = IF throws THEN _generate_emergency_template_content
                                        ELSE TemplateContent(metrics)
    /\ pc' = "assemble"
    /\ UNCHANGED <<src_i, req, sent, api_data, collected_data, metrics, report, raised, top_exc>>
    /\ UNCHANGED full_report_content
    /\ UNCHANGED <<gcVars, colVars, extVars>>

NoFullContent ==
    [kind |-> "none", risk_status |-> "", quality_status |-> "", defect_value |-> Missing,
     sources_successful |-> 0, risk_description |-> ""]
\* the text returned by the handler of _build_comprehensive_report_content
\* (lines 1725-1740): it has no table of indicators, no data quality
\* summary and no report summary
BasicContent ==
    [kind |-> "basic", risk_status |-> "", quality_status |-> "", defect_value |-> Missing,
     sources_successful |-> 0, risk_description |-> ""]

\* _generate_fallback_summary (lines 1863-1914): risk_description, for
\* defect_prob = metrics.get('defect_probability', 0) in hundredths
FallbackRiskDescription(defect_prob) ==
    IF defect_prob.t # "num" THEN "unknown risk level"
    ELSE IF defect_prob.n < 10 THEN "very low risk of problems"
    ELSE IF defect_prob.n < 30 THEN "low risk of problems"
    ELSE IF defect_prob.n < 50 THEN "moderate risk of problems"
    ELSE "high risk of problems"

\* line 1589, defect_prob in hundredths
RiskStatusShifted(defect_prob) ==
    IF defect_prob < 5 THEN "Low Risk"
    ELSE IF defect_prob < 20 THEN "Medium Risk"
    ELSE IF defect_prob < 40 THEN "High Risk"
    ELSE "Critical Risk"
RiskStatus(defect_prob) ==
    IF defect_prob < 20 THEN "Low Risk"
    ELSE IF defect_prob < 40 THEN "Medium Risk"
    ELSE IF defect_prob < 60 THEN "High Risk"
    ELSE "Critical Risk"

\* line 1592, overall_score in hundredths
QualityStatus(overall_score) ==
    IF overall_score >= 80 THEN "Excellent"
    ELSE IF overall_score >= 60 THEN "Good"
    ELSE IF overall_score >= 40 THEN "Review"
    ELSE "Critical"

\* _build_comprehensive_report_content (lines 1556-1740): the rows
\* "Overall Quality Score" and "Defect Risk Level" of the indicator table.
\* "defect_prob < 0.2" raises TypeError when defect_prob is not a number;
\* later_throws stands for an exception of the sections after the table.
\* defect_value is the value of the row "Defect Risk Level",
\* sources_successful the number of the line "Sources Successful" (line
\* 1706), risk_description the one of the report summary when
\* _generate_simple_summary took it from _generate_fallback_summary
\* (llm_summary: the summary is a text of the LLM, lines 1803-1815)
_build_comprehensive_report_content(m, later_throws, llm_summary) ==
    LET defect_prob == IF m.defect_probability = Missing THEN Num(0) ELSE m.defect_probability
        overall_score == IF m.quality_scores.present THEN m.quality_scores.overall_score ELSE 0
    IN IF defect_prob.t # "num" \/ later_throws
          THEN BasicContent
          ELSE [kind |-> "full", risk_status |-> RiskStatus(defect_prob.n),
                quality_status |-> QualityStatus(overall_score),
                defect_value |-> defect_prob,
                sources_successful |-> 4,
                risk_description |-> IF llm_summary THEN "" ELSE FallbackRiskDescription(defect_prob)]

\* lines 63-91: the report content and the report dict are built and
\* cleaned; these lines are guarded only by the outermost try
GR_Assemble ==
    /\ pc = "assemble"
    /\ \E later_throws \in BOOLEAN, llm_summary \in (IF client_available THEN BOOLEAN ELSE {FALSE}) :
         full_report_content' = _build_comprehensive_report_content(metrics, later_throws, llm_summary)
    /\ \E throws \in BOOLEAN :
         IF throws
            THEN /\ report' = TopLevelHandler("assembly error").report
                 /\ raised' = TopLevelHandler("assembly error").raised
                 /\ top_exc' = "assembly error"
            ELSE /\ report' = NormalReport(narrative, report_content, collected_data)
                 /\ UNCHANGED <<raised, top_exc>>
    /\ pc' = "done"
    /\ UNCHANGED <<src_i, req, sent, api_data, collected_data, metrics, narrative, report_content>>
    /\ UNCHANGED <<gcVars, colVars, extVars>>

----------------------------------------------------------------------------
(* Collectors: ClassificationCollector, ForecastingCollector, RLCollector   *)

Collectors == {"classification", "forecasting", "rl"}

\* the upstream endpoints collect_data fetches, in order
Endpoints(c) ==
    CASE c = "classification" -> <<"defect_prediction", "quality_prediction">>
      [] c = "forecasting" -> <<"forecast">>
      [] OTHER -> <<"baseline_model", "current_model", "new_model">>

\* what an upstream endpoint does: 200 with a JSON object, 200 with JSON that
\* is not an object, a non-200 status, a timeout or other transport
\* exception, 200 with a body that is not JSON
ColAnswers == {"ok", "ok_not_object", "http_500", "timeout", "malformed_json"}
ColFailures == ColAnswers \ {"ok"}

EndpointOk == [api_status |-> "success", error |-> "", raises |-> FALSE]
EndpointError(status, msg) == [api_status |-> status, error |-> msg, raises |-> FALSE]

\* _collect_defect_data, _collect_quality_data (classification_collector.py
\* lines 53-107) and _collect_rl_actions (rl_collector.py lines 58-95)
NestedEndpointEntryUncaught(ans) ==
    CASE ans = "ok" -> EndpointOk
      [] ans = "http_500" -> EndpointError("error", "HTTP 500")
      [] OTHER -> [api_status |-> "", error |-> "", raises |-> TRUE]
NestedEndpointEntry(ans) ==
    CASE ans = "ok" -> EndpointOk
      [] ans = "http_500" -> EndpointError("error", "HTTP 500")
      [] ans = "timeout" -> EndpointError("error", "TimeoutError")
      [] ans = "malformed_json" -> EndpointError("error", "JSONDecodeError")
      [] OTHER -> EndpointError("error", "AttributeError")

\* ForecastingCollector.collect_data (forecasting_collector.py lines 29-51)
ForecastEntry(ans) ==
    CASE ans = "ok" -> EndpointOk
      [] ans = "http_500" -> EndpointError("failed", "HTTP 500")
      [] ans = "timeout" -> EndpointError("error", "TimeoutError")
      [] ans = "malformed_json" -> EndpointError("error", "JSONDecodeError")
      [] OTHER -> EndpointError("error", "TypeError")

EndpointEntry(c, ans) == IF c = "forecasting" THEN ForecastEntry(ans) ELSE NestedEndpointEntry(ans)

NoRecord == [returned |-> FALSE, parts |-> <<>>]

\* collect_data is called
COL_Start(c) ==
    /\ col_pc[c] = "idle"
    /\ col_pc' = [col_pc EXCEPT ![c] = "fetching"]
    /\ UNCHANGED <<col_parts, col_record, col_raised>>
    /\ UNCHANGED <<gcVars, grVars, extVars>>

\* the next endpoint is awaited
COL_Fetch(c) ==
    /\ col_pc[c] = "fetching"
    /\ Len(col_parts[c]) < Len(Endpoints(c))
    /\ \E ans \in ColAnswers :
         LET e == EndpointEntry(c, ans)
         IN IF e.raises
               THEN /\ col_raised' = [col_raised EXCEPT ![c] = TRUE]
                    /\ col_pc' = [col_pc EXCEPT ![c] = "done"]
                    /\ UNCHANGED col_parts
               ELSE /\ col_parts' = [col_parts EXCEPT ![c] =
                                        Append(@, [answer |-> ans, api_status |-> e.api_status, error |-> e.error])]
                    /\ UNCHANGED <<col_pc, col_raised>>
    /\ UNCHANGED col_record
    /\ UNCHANGED <<gcVars, grVars, extVars>>

\* the record is built from the entries and returned
COL_Return(c) ==
    /\ col_pc[c] = "fetching"
    /\ Len(col_parts[c]) = Len(Endpoints(c))
    /\ col_record' = [col_record EXCEPT ![c] = [returned |-> TRUE, parts |-> col_parts[c]]]
    /\ col_pc' = [col_pc EXCEPT ![c] = "done"]
    /\ UNCHANGED <<col_parts, col_raised>>
    /\ UNCHANGED <<gcVars, grVars, extVars>>

----------------------------------------------------------------------------
(* KnowledgeBaseManager                                                     *)

\* self.collections, in the order the dict is built (lines 45-49)
KBCollections == <<"historical_data", "documentation", "templates">>
KBCollectionNames == {KBCollections[i] : i \in 1..Len(KBCollections)}

\* strings are sequences of characters; "<" on str is the lexical order
Chars == 1..2
RECURSIVE LexLess(_, _)
LexLess(a, b) ==
    IF b = <<>> THEN FALSE
    ELSE IF a = <<>> THEN TRUE
    ELSE IF Head(a) < Head(b) THEN TRUE
    ELSE IF Head(a) > Head(b) THEN FALSE
    ELSE LexLess(Tail(a), Tail(b))

\* the clock, in days, and datetime.isoformat(): a string of fixed width
\* whose lexical order is the order of the dates
Days == 0..3
\* values of the parameter days_to_keep; the largest moves the cutoff out
\* of the range of dates
DaysToKeep == 0..4
isoformat(d) == <<(d \div 2) + 1, (d % 2) + 1>>

\* a metadata value under the key 'timestamp': a string, or a value that is
\* not a string (a JSON number passes through the metadata of a request)
Str(chars) == [t |-> "str", s |-> chars]
NotStr == [t |-> "num", s |-> <<>>]
Strings == {<<>>} \cup {<<a>> : a \in Chars} \cup {<<a, b>> : a, b \in Chars}
TimestampValues == {Str(x) : x \in Strings} \cup {NotStr}
\* the key is not given by the caller
NoTimestamp == [t |-> "missing", s |-> <<>>]

Document(id, coll, ts) == [id |-> id, coll |-> coll, timestamp |-> ts]
DocsOf(store, coll) == {d \in store : d.coll = coll}

MaxDocs == 2

\* the stores of n documents an earlier run may have left on disk
StoresOf(n) ==
    {{Document(i, f[i][1], f[i][2]) : i \in 1..n} :
        f \in [1..n -> KBCollectionNames \X TimestampValues]}

\* "if not self.embedding_model or not self.client" (lines 58, 96, 127)
UnavailableClientOnly == ~chroma_client
Unavailable == ~embedding_model \/ ~chroma_client

NoKBResult == [op |-> "none", ok |-> FALSE, raw |-> <<>>, results |-> <<>>,
               cutoff |-> <<>>, before |-> {}]
AddResult(op, ok, before) ==
    [op |-> op, ok |-> ok, raw |-> <<>>, results |-> <<>>, cutoff |-> <<>>, before |-> before]
SearchResult(raw, results, before) ==
    [op |-> "search_relevant_context", ok |-> TRUE, raw |-> raw, results |-> results,
     cutoff |-> <<>>, before |-> before]
CleanupResult(cutoff, before) ==
    [op |-> "cleanup_old_embeddings", ok |-> TRUE, raw |-> <<>>, results |-> <<>>,
     cutoff |-> cutoff, before |-> before]

\* 'timestamp': datetime.now().isoformat(), **metadata (lines 109-113): a
\* 'timestamp' key of metadata replaces the generated one
\* data.get('collection_timestamp', datetime.now().isoformat()) (line 79)
StoredTimestamp(given, now) == IF given = NoTimestamp THEN Str(isoformat(now)) ELSE given

\* add_documentation (lines 94-122) and add_historical_data (lines 56-92).
\* outcome: the document is stored, or encode / collection.add raised (or
\* no text was generated): the handler returns False
KB_Add(op, coll) ==
    /\ kb_pc = "open"
    /\ kb_next_id <= MaxDocs
    /\ \E given \in TimestampValues \cup {NoTimestamp}, now \in Days, outcome \in {"stored", "raised"} :
         IF Unavailable \/ outcome = "raised"
            THEN /\ kb_result' = AddResult(op, FALSE, kb_store)
                 /\ UNCHANGED <<kb_store, kb_next_id>>
            ELSE /\ kb_store' = kb_store \cup {Document(kb_next_id, coll, StoredTimestamp(given, now))}
                 /\ kb_next_id' = kb_next_id + 1
                 /\ kb_result' = AddResult(op, TRUE, kb_store)
    /\ UNCHANGED <<embedding_model, chroma_client, kb_pc, kb_raised>>
    /\ UNCHANGED <<gcVars, grVars, colVars, hsVars, emVars, apiVars, psVars>>

KB_AddDocumentation == KB_Add("add_documentation", "documentation")
KB_AddHistoricalData == KB_Add("add_historical_data", "historical_data")

\* distances the index reports, in hundredths
Distances == {10, 40}

\* the orders in which the index may return the documents of a collection
Orders(S) == {f \in [1..Cardinality(S) -> S] : \A i, j \in 1..Cardinality(S) : f[i] = f[j] => i = j}

\* put x behind the items whose distance is not larger (list.sort is stable)
RECURSIVE Insert(_, _)
Insert(x, sorted) ==
    IF sorted = <<>> THEN <<x>>
    ELSE IF sorted[Len(sorted)].distance <= x.distance THEN Append(sorted, x)
    ELSE Append(Insert(x, SubSeq(sorted, 1, Len(sorted) - 1)), sorted[Len(sorted)])

\* context_results.sort(key=lambda x: x['distance']) (line 155)
RECURSIVE SortByDistance(_)
SortOmitted(items) == items
SortByDistance(items) ==
    IF items = <<>> THEN <<>>
    ELSE Insert(items[Len(items)], SortByDistance(SubSeq(items, 1, Len(items) - 1)))

\* lines 144-152: one item per result, relevance_score = 1 - distance
ContextItem(r) == [id |-> r.id, distance |-> r.distance, relevance_score |-> 100 - r.distance]

\* search_relevant_context (lines 124-164); n_results (10, or 5 from the
\* report generators) is not below the number of stored documents
KB_Search ==
    /\ kb_pc = "open"
    /\ \E collection \in KBCollectionNames \cup {"reports"}, query_raises \in BOOLEAN :
         IF Unavailable \/ collection \notin KBCollectionNames \/ query_raises
            THEN kb_result' = SearchResult(<<>>, <<>>, kb_store)
            ELSE \E order \in Orders(DocsOf(kb_store, collection)) :
                 \E dist \in [DocsOf(kb_store, collection) -> Distances] :
                    LET raw == [i \in DOMAIN order |-> [id |-> order[i].id, distance |-> dist[order[i]]]]
                    IN kb_result' = SearchResult(raw,
                                         SortByDistance([i \in DOMAIN raw |-> ContextItem(raw[i])]),
                                         kb_store)
    /\ kb_pc' = "closed"
    /\ UNCHANGED <<embedding_model, chroma_client, kb_store, kb_next_id, kb_raised>>
    /\ UNCHANGED <<gcVars, grVars, colVars, hsVars, emVars, apiVars, psVars>>

\* the loop over self.collections (lines 439-453) from collection i on:
\* "doc_timestamp < cutoff_timestamp" raises TypeError for a timestamp that
\* is not a string; the handler (line 455) ends the cleanup, the collection
\* being scanned and the ones after it keep their documents
RECURSIVE CleanupFrom(_, _, _)
CleanupFrom(store, cutoff_timestamp, i) ==
    IF i > Len(KBCollections) THEN store
    ELSE LET docs == DocsOf(store, KBCollections[i])
             old_ids == {d \in docs : d.timestamp.t = "str" /\ LexLess(d.timestamp.s, cutoff_timestamp)}
         IN IF \E d \in docs : d.timestamp.t # "str"
               THEN store
               ELSE CleanupFrom(store \ old_ids, cutoff_timestamp, i + 1)

\* cleanup_old_embeddings (lines 430-456). datetime.now() - timedelta(days)
\* (line 435, outside the try) raises OverflowError when the date is out of
\* range
KB_Cleanup ==
    /\ kb_pc = "open"
    /\ \E now \in Days, days_to_keep \in DaysToKeep :
         IF ~chroma_client
            THEN /\ kb_result' = CleanupResult(<<>>, kb_store)
                 /\ UNCHANGED <<kb_store, kb_raised>>
            ELSE IF now - days_to_keep \notin Days
                    THEN /\ kb_raised' = TRUE
                         /\ kb_result' = CleanupResult(<<>>, kb_store)
                         /\ UNCHANGED kb_store
                    ELSE /\ kb_store' = CleanupFrom(kb_store, isoformat(now - days_to_keep), 1)
                         /\ kb_result' = CleanupResult(isoformat(now - days_to_keep), kb_store)
                         /\ UNCHANGED kb_raised
    /\ kb_pc' = "closed"
    /\ UNCHANGED <<embedding_model, chroma_client, kb_next_id>>
    /\ UNCHANGED <<gcVars, grVars, colVars, hsVars, emVars, apiVars, psVars>>

----------------------------------------------------------------------------
(* History of a collector: _add_to_history, clear_history                   *)

\* self.max_history; the source sets 100, the model a capacity small enough
\* to be exceeded within MaxCollects calls
max_history == 3
MaxCollects == 5

\* ClassificationCollector and RLCollector create a history list in
\* __init__ and call _add_to_history; ForecastingCollector has neither
HasHistory(c) == c \in {"classification", "rl"}

\* the record of call n: classification_record / rl_record when the try
\* block ran through, error_record when the handler built it; n is
\* the order in which the calls were started
RecordKinds == {"record", "error_record"}
Record(n, kind) == [call |-> n, kind |-> kind]
NoCall == [call |-> 0, kind |-> "none"]

\* _add_to_history (classification_collector.py lines 357-363,
\* rl_collector.py lines 436-442)
_add_to_history_keeps_oldest(history, record) ==
    LET appended == Append(history, record)
    IN IF Len(appended) > max_history
          THEN SubSeq(appended, 1, max_history)
          ELSE appended
_add_to_history(history, record) ==
    LET appended == Append(history, record)
    IN IF Len(appended) > max_history
          THEN SubSeq(appended, Len(appended) - max_history + 1, Len(appended))
          ELSE appended

\* the 'timestamp' of the record of call n once the call returns: the record
\* of the try block keeps the datetime.now() taken before the first await
\* (lines 32-33), the error record takes a new one in the handler (line 45)
TimestampAtReturn(ts, n, kind, now) ==
    IF kind = "error_record" THEN [ts EXCEPT ![n] = now] ELSE ts

\* collect_data is called: the record is started and the call suspends at
\* its first await
HS_Start ==
    /\ hs_started < MaxCollects
    /\ hs_started' = hs_started + 1
    /\ hs_inflight' = hs_inflight \cup {hs_started + 1}
    /\ hs_clock' = hs_clock + 1
    /\ hs_ts' = Append(hs_ts, hs_clock + 1)
    /\ UNCHANGED <<hs_collector, hs_history, hs_completed, hs_last>>
    /\ UNCHANGED <<gcVars, grVars, colVars, kbVars, emVars, apiVars, psVars>>

\* the awaits of call n are over: the record (or, from the handler, the
\* error record) is appended and returned, without another await in between
HS_Complete(n) ==
    /\ n \in hs_inflight
    /\ \E kind \in RecordKinds :
         /\ hs_history' = IF HasHistory(hs_collector)
                             THEN _add_to_history(hs_history, Record(n, kind))
                             ELSE hs_history
         /\ hs_completed' = Append(hs_completed, Record(n, kind))
         /\ hs_last' = Record(n, kind)
         /\ hs_ts' = TimestampAtReturn(hs_ts, n, kind, hs_clock + 1)
    /\ hs_clock' = hs_clock + 1
    /\ hs_inflight' = hs_inflight \ {n}
    /\ UNCHANGED <<hs_collector, hs_started>>
    /\ UNCHANGED <<gcVars, grVars, colVars, kbVars, emVars, apiVars, psVars>>

\* clear_history (classification_collector.py lines 369-372, rl_collector.py
\* lines 448-451)
HS_Clear ==
    /\ HasHistory(hs_collector)
    /\ hs_history # <<>>
    /\ hs_history' = <<>>
    /\ hs_completed' = <<>>
    /\ UNCHANGED <<hs_collector, hs_started, hs_inflight, hs_last, hs_clock, hs_ts>>
    /\ UNCHANGED <<gcVars, grVars, colVars, kbVars, emVars, apiVars, psVars>>

----------------------------------------------------------------------------
(* Emoji cleaner (src/utils/emoji_cleaner.py)                               *)

\* A Python str is the sequence of its code points.
\* emoji_replacements (lines 16-51), in the insertion order the loop at
\* line 55 walks: <<byte-garbled emoji sequence, text equivalent>>
emoji_replacements ==
    <<
       <<<<287, 376, 8221, 180>>,
         <<91, 72, 73, 71, 72, 32, 82, 73, 83, 75, 93>>>>,  \* line 18: [HIGH RISK]
       <<<<287, 376, 376, 161>>,
         <<91, 77, 69, 68, 73, 85, 77, 32, 82, 73, 83, 75, 93>>>>,  \* line 19: [MEDIUM RISK]
       <<<<287, 376, 376, 162>>,
         <<91, 76, 79, 87, 32, 82, 73, 83, 75, 93>>>>,  \* line 20: [LOW RISK]
       <<<<226, 339, 8230>>,
         <<91, 79, 75, 93>>>>,  \* line 21: [OK]
       <<<<226, 338>>,
         <<91, 70, 65, 73, 76, 93>>>>,  \* line 22: [FAIL]
       <<<<226, 353, 160, 239, 184>>,
         <<91, 87, 65, 82, 78, 73, 78, 71, 93>>>>,  \* line 23: [WARNING]
       <<<<287, 376, 353, 168>>,
         <<91, 65, 76, 69, 82, 84, 93>>>>,  \* line 24: [ALERT]
       <<<<287, 376, 8220, 710>>,
         <<91, 73, 78, 67, 82, 69, 65, 83, 73, 78, 71, 93>>>>,  \* line 27: [INCREASING]
       <<<<287, 376, 8220, 8240>>,
         <<91, 68, 69, 67, 82, 69, 65, 83, 73, 78, 71, 93>>>>,  \* line 28: [DECREASING]
       <<<<287, 376, 8220, 352>>,
         <<91, 68, 65, 84, 65, 93>>>>,  \* line 29: [DATA]
       <<<<287, 376, 8220, 8249>>,
         <<91, 82, 69, 80, 79, 82, 84, 93>>>>,  \* line 30: [REPORT]
       <<<<287, 376, 8220, 8222>>,
         <<91, 68, 79, 67, 85, 77, 69, 78, 84, 93>>>>,  \* line 31: [DOCUMENT]
       <<<<287, 376, 8221, 167>>,
         <<91, 77, 65, 73, 78, 84, 69, 78, 65, 78, 67, 69, 93>>>>,  \* line 34: [MAINTENANCE]
       <<<<226, 353, 8482, 239, 184>>,
         <<91, 83, 69, 84, 84, 73, 78, 71, 83, 93>>>>,  \* line 35: [SETTINGS]
       <<<<287, 376, 8217, 161>>,
         <<91, 84, 73, 80, 93>>>>,  \* line 36: [TIP]
       <<<<287, 376, 175>>,
         <<91, 84, 65, 82, 71, 69, 84, 93>>>>,  \* line 37: [TARGET]
       <<<<287, 376, 173>>,
         <<91, 70, 65, 67, 84, 79, 82, 89, 93>>>>,  \* line 40: [FACTORY]
       <<<<226, 176>>,
         <<91, 84, 73, 77, 69, 93>>>>,  \* line 41: [TIME]
       <<<<287, 376, 8221, 8222>>,
         <<91, 80, 82, 79, 67, 69, 83, 83, 93>>>>,  \* line 42: [PROCESS]
       <<<<287, 376, 8220, 166>>,
         <<91, 80, 65, 67, 75, 65, 71, 69, 93>>>>,  \* line 43: [PACKAGE]
       <<<<226, 173>>,
         <<91, 83, 84, 65, 82, 93>>>>,  \* line 46: [STAR]
       <<<<287, 376, 8217, 175>>,
         <<91, 49, 48, 48, 37, 93>>>>,  \* line 47: [100%]
       <<<<287, 376, 8240>>,
         <<91, 83, 85, 67, 67, 69, 83, 83, 93>>>>,  \* line 48: [SUCCESS]
       <<<<287, 376, 8221>>,
         <<91, 83, 69, 65, 82, 67, 72, 93>>>>  \* line 49: [SEARCH]
    >>

\* the character class of emoji_pattern (lines 60-81)
emoji_pattern(c) ==
    \/ c \in 128512..128591      \* \U0001F600-\U0001F64F
    \/ c \in 127744..128511      \* \U0001F300-\U0001F5FF
    \/ c \in 128640..128767      \* \U0001F680-\U0001F6FF
    \/ c \in 127456..127487      \* \U0001F1E0-\U0001F1FF
    \/ c \in 9472..11247         \* \U00002500-\U00002BEF
    \/ c \in 9986..10160         \* \U00002702-\U000027B0
    \/ c \in 9410..127569        \* \U000024C2-\U0001F251
    \/ c \in 129318..129335      \* \U0001f926-\U0001f937
    \/ c \in 65536..1114111      \* \U00010000-\U0010ffff
    \/ c \in 9792..9794          \* \u2640-\u2642
    \/ c \in 9728..11093         \* \u2600-\u2B55
    \/ c \in {8205, 9167, 9193, 8986, 65039, 12336}

\* str.startswith at the head of s
StartsWith(s, old) ==
    /\ Len(s) >= Len(old)
    /\ SubSeq(s, 1, Len(old)) = old

\* str.replace(old, new) for a non-empty old (line 56): the non-overlapping
\* occurrences, found left to right, are replaced
RECURSIVE replace(_, _, _)
replace(s, old, new) ==
    IF Len(s) < Len(old) THEN s
    ELSE IF StartsWith(s, old)
         THEN new \o replace(SubSeq(s, Len(old) + 1, Len(s)), old, new)
         ELSE <<Head(s)>> \o replace(Tail(s), old, new)

\* the loop of lines 55-56 from entry i of the table on
RECURSIVE ApplyReplacements(_, _)
ApplyReplacements(cleaned_text, i) ==
    IF i > Len(emoji_replacements) THEN cleaned_text
    ELSE ApplyReplacements(
             replace(cleaned_text, emoji_replacements[i][1], emoji_replacements[i][2]),
             i + 1)

\* emoji_pattern.sub('', cleaned_text) (line 83): every character of the
\* class is dropped
RECURSIVE sub(_)
sub(s) ==
    IF s = <<>> THEN <<>>
    ELSE IF emoji_pattern(Head(s)) THEN sub(Tail(s))
         ELSE <<Head(s)>> \o sub(Tail(s))

\* clean_emojis_from_text (lines 8-85)
clean_emojis_from_text(text) ==
    IF text = <<>> THEN text
    ELSE sub(ApplyReplacements(text, 1))

\* Report data: a str, a list, a dict (keys in insertion order) or any other
\* value (number, None)
StrData(t)       == [kind |-> "str",   text |-> t,    keys |-> <<>>, items |-> <<>>]
OtherData        == [kind |-> "other", text |-> <<>>, keys |-> <<>>, items |-> <<>>]
ListData(xs)     == [kind |-> "list",  text |-> <<>>, keys |-> <<>>, items |-> xs]
DictData(ks, xs) == [kind |-> "dict",  text |-> <<>>, keys |-> ks,   items |-> xs]

\* clean_report_content (lines 87-109)
RECURSIVE clean_report_content(_)
clean_report_content(report_data) ==
    IF report_data.kind = "dict"
    THEN [report_data EXCEPT !.items =
            [i \in DOMAIN report_data.items |->
                LET value == report_data.items[i] IN
                IF value.kind = "str" THEN StrData(clean_emojis_from_text(value.text))
                ELSE IF value.kind \in {"dict", "list"} THEN clean_report_content(value)
                ELSE value]]
    ELSE IF report_data.kind = "list"
    THEN [report_data EXCEPT !.items =
            [i \in DOMAIN report_data.items |-> clean_report_content(report_data.items[i])]]
    ELSE IF report_data.kind = "str"
    THEN StrData(clean_emojis_from_text(report_data.text))
    ELSE report_data

NoData == [kind |-> "none", text |-> <<>>, keys |-> <<>>, items |-> <<>>]

\* the sanitizer is applied to a report structure
EM_Clean ==
    /\ em_pc = "input"
    /\ em_once' = clean_report_content(em_input)
    /\ em_pc' = "once"
    /\ UNCHANGED <<em_input, em_twice>>
    /\ UNCHANGED <<gcVars, grVars, colVars, kbVars, hsVars, apiVars, psVars>>

\* the sanitizer is applied to its own result
EM_CleanAgain ==
    /\ em_pc = "once"
    /\ em_twice' = clean_report_content(em_once)
    /\ em_pc' = "twice"
    /\ UNCHANGED <<em_input, em_once>>
    /\ UNCHANGED <<gcVars, grVars, colVars, kbVars, hsVars, apiVars, psVars>>

----------------------------------------------------------------------------
(* HTTP API: POST /api/reports/generate of report_api.py and simple_api.py   *)

ApiModules == {"report_api", "simple_api"}

\* report types a request may carry: the canonical name, an alias of the
\* mapping table, and a name the table does not know
RequestTypes == {"quality_control", "qc", "inventory"}

\* keys of report_type_mapping (report_api.py lines 129-138)
report_type_mapping == {"quality_control", "quality", "qc", "defect_analysis",
                        "manufacturing_report", "pharma_report", "comprehensive", "string"}

\* mapped_report_type = report_type_mapping.get(report_type.lower(), report_type)
MappedTypeUnmapped(t) == t
MappedType(t) == IF t \in report_type_mapping THEN "quality_control" ELSE t

\* report_generators after startup_event: one entry, or the empty dict the
\* module starts with when the startup raised before line 73
report_generators == IF generator_ready THEN {"quality_control"} ELSE {}

\* the test that precedes the try block of the endpoint:
\* report_api line 143, simple_api line 189
Rejected ==
    IF api_module = "report_api"
       THEN MappedType(request_type) \notin report_generators
       ELSE ~generator_ready

\* status code of the HTTPException raised by that test
RejectionStatus == IF api_module = "report_api" THEN 400 ELSE 503

NoEnvelope == [status |-> "none", report |-> NoReport, report_type |-> "none"]

\* the dict returned after generator.generate_report: report_api reports
\* report_type_used, simple_api echoes request.report_type
Envelope(r) ==
    [status |-> "success", report |-> r,
     report_type |-> IF api_module = "report_api" THEN MappedType(request_type)
                                                   ELSE request_type]

\* the request is refused before the generator is looked up
API_Reject ==
    /\ api_pc = "received"
    /\ Rejected
    /\ http_status' = RejectionStatus
    /\ api_pc' = "responded"
    /\ UNCHANGED <<api_module, generator_ready, request_type, envelope>>
    /\ UNCHANGED <<gcVars, grVars, colVars, kbVars, hsVars, emVars, psVars>>

\* report = await generator.generate_report(query, additional_context)
API_Invoke ==
    /\ api_pc = "received"
    /\ ~Rejected
    /\ pc = "idle"
    /\ pc' = "start"
    /\ api_pc' = "invoked"
    /\ UNCHANGED <<api_module, generator_ready, request_type, http_status, envelope>>
    /\ UNCHANGED <<src_i, req, sent, api_data, collected_data, metrics, narrative,
                   report_content, full_report_content, report, raised, top_exc>>
    /\ UNCHANGED <<gcVars, colVars, kbVars, hsVars, emVars, psVars>>

\* the await returns the report, or the handler "except Exception" of the
\* endpoint turns an exception of the generator into HTTPException(500)
API_Respond ==
    /\ api_pc = "invoked"
    /\ pc = "done"
    /\ IF raised
          THEN /\ http_status' = 500
               /\ UNCHANGED envelope
          ELSE /\ http_status' = 200
               /\ envelope' = Envelope(report)
    /\ api_pc' = "responded"
    /\ UNCHANGED <<api_module, generator_ready, request_type>>
    /\ UNCHANGED <<gcVars, grVars, colVars, kbVars, hsVars, emVars, psVars>>

----------------------------------------------------------------------------
(* _parse_llm_content, _clean_duplicate_titles, _format_section_content      *)

\* keys of the dict "sections" (lines 327-334)
SectionNames == {"executive_summary", "detailed_analysis", "recommendations",
                 "compliance_status", "risk_assessment", "action_items"}

\* the if/elif chain of lines 349-378, in its order: the words looked for in
\* the lowered line and the section the line then opens
HeaderTests ==
    << [words |-> {"executive", "summary"},  section |-> "executive_summary"],
       [words |-> {"detailed", "analysis"},  section |-> "detailed_analysis"],
       [words |-> {"recommendations"},       section |-> "recommendations"],
       [words |-> {"compliance"},            section |-> "compliance_status"],
       [words |-> {"risk", "assessment"},    section |-> "risk_assessment"],
       [words |-> {"action", "items"},       section |-> "action_items"] >>

\* section_name in ['recommendations', 'action_items'] (line 435)
ListSections == {"recommendations", "action_items"}

\* A line of the content: "text" is the line stripped and without its list
\* marker, "marker" says that it starts with '-', a bullet, '*' or "1." to
\* "5." (line 441), "words" are the words of the header tests it contains and
\* "title" says that it contains one of the report titles of lines 415-419.
\* The texts stand for text that does not itself begin with a character of
\* the set that lstrip removes at line 442.
TextLine(t, marker) == [text |-> t, marker |-> marker, words |-> {}, title |-> FALSE]
HeaderLine(t, w)    == [text |-> t, marker |-> FALSE,  words |-> w,  title |-> FALSE]
TitleLine           == [text |-> "Quality Control Report", marker |-> FALSE, words |-> {}, title |-> TRUE]
BlankLine           == [text |-> "", marker |-> FALSE, words |-> {}, title |-> FALSE]

\* first test of the chain that the line passes, 0 when it passes none
RECURSIVE HeaderTestFrom(_, _)
HeaderTestFrom(line, k) ==
    IF k > Len(HeaderTests) THEN 0
    ELSE IF HeaderTests[k].words \cap line.words # {} THEN k
    ELSE HeaderTestFrom(line, k + 1)

\* _clean_duplicate_titles (lines 404-429): a line that contains a report
\* title is kept the first time its title_key is seen and dropped afterwards
RECURSIVE CleanFrom(_, _, _)
CleanFrom(lines, i, seen_titles) ==
    IF i > Len(lines) THEN <<>>
    ELSE IF lines[i].title
         THEN IF lines[i].text \in seen_titles
                 THEN CleanFrom(lines, i + 1, seen_titles)
                 ELSE <<lines[i]>> \o CleanFrom(lines, i + 1, seen_titles \cup {lines[i].text})
         ELSE <<lines[i]>> \o CleanFrom(lines, i + 1, seen_titles)

_clean_duplicate_titles(lines) == CleanFrom(lines, 1, {})

\* the loop of lines 439-446: a line with a list marker becomes an item, a
\* line without one only as long as no item exists
RECURSIVE ItemsFrom(_, _, _)
ItemsFrom(content_lines, i, items) ==
    IF i > Len(content_lines) THEN items
    ELSE ItemsFrom(content_lines, i + 1,
                   IF content_lines[i].marker \/ items = <<>>
                      THEN Append(items, content_lines[i].text)
                      ELSE items)

\* '\n'.join(content_lines), as the sequence of the texts of its lines
Joined(content_lines) == [i \in 1..Len(content_lines) |-> content_lines[i].text]

\* _format_section_content (lines 431-450); content_lines is never empty
\* where it is called, so that "items" has at least the first line
_format_section_content(section_name, content_lines) ==
    IF section_name \in ListSections
       THEN ItemsFrom(content_lines, 1, <<>>)
       ELSE Joined(content_lines)

\* the statement repeated in every branch of the chain and after the loop:
\* if current_content: sections[current_section] = _format_section_content(...)
Store(secs, section_name, content_lines) ==
    IF content_lines = <<>> THEN secs
    ELSE [secs EXCEPT ![section_name] = _format_section_content(section_name, content_lines)]

EmptySections == [n \in SectionNames |-> <<>>]

\* line 324: content = self._clean_duplicate_titles(content), then the
\* locals of lines 327-340
PS_Clean ==
    /\ ps_pc = "clean"
    /\ ps_lines' = _clean_duplicate_titles(ps_content)
    /\ sections' = EmptySections
    /\ current_section' = "executive_summary"
    /\ current_content' = <<>>
    /\ ps_i' = 1
    /\ ps_pc' = "scan"
    /\ UNCHANGED ps_content
    /\ UNCHANGED <<gcVars, grVars, colVars, kbVars, hsVars, emVars, apiVars>>

\* one pass of the loop "for line in lines" (lines 342-380)
PS_Line ==
    /\ ps_pc = "scan"
    /\ ps_i <= Len(ps_lines)
    /\ LET line == ps_lines[ps_i]
           k    == HeaderTestFrom(line, 1)
       IN  IF line.text = ""
              THEN UNCHANGED <<sections, current_section, current_content>>
           ELSE IF k # 0
              THEN /\ sections' = Store(sections, current_section, current_content)
                   /\ current_section' = HeaderTests[k].section
                   /\ current_content' = <<>>
              ELSE /\ current_content' = Append(current_content, line)
                   /\ UNCHANGED <<sections, current_section>>
    /\ ps_i' = ps_i + 1
    /\ UNCHANGED <<ps_content, ps_lines, ps_pc>>
    /\ UNCHANGED <<gcVars, grVars, colVars, kbVars, hsVars, emVars, apiVars>>

\* lines 382-389: the last section is stored, an empty executive_summary is
\* replaced by the content (of at most 500 characters), sections is returned
PS_Return ==
    /\ ps_pc = "scan"
    /\ ps_i > Len(ps_lines)
    /\ LET stored == Store(sections, current_section, current_content)
       IN  sections' = IF stored["executive_summary"] = <<>>
                          THEN [stored EXCEPT !["executive_summary"] = Joined(ps_lines)]
                          ELSE stored
    /\ ps_pc' = "done"
    /\ UNCHANGED <<ps_content, ps_lines, ps_i, current_section, current_content>>
    /\ UNCHANGED <<gcVars, grVars, colVars, kbVars, hsVars, emVars, apiVars>>

----------------------------------------------------------------------------
(* Specifications                                                           *)

PSIdle ==
    /\ ps_content = <<>>
    /\ ps_lines = <<>>
    /\ ps_i = 0
    /\ current_section = "none"
    /\ current_content = <<>>
    /\ sections = EmptySections
    /\ ps_pc = "idle"

APIIdle ==
    /\ api_module = "none"
    /\ generator_ready = FALSE
    /\ request_type = "none"
    /\ api_pc = "idle"
    /\ http_status = 0
    /\ envelope = NoEnvelope

HSIdle ==
    /\ hs_collector = "none"
    /\ hs_started = 0
    /\ hs_inflight = {}
    /\ hs_history = <<>>
    /\ hs_completed = <<>>
    /\ hs_last = NoCall
    /\ hs_clock = 0
    /\ hs_ts = <<>>

EMIdle ==
    /\ em_input = NoData
    /\ em_once = NoData
    /\ em_twice = NoData
    /\ em_pc = "idle"

KBIdle ==
    /\ embedding_model = FALSE
    /\ chroma_client = FALSE
    /\ kb_store = {}
    /\ kb_next_id = 1
    /\ kb_pc = "idle"
    /\ kb_result = NoKBResult
    /\ kb_raised = FALSE

GCIdle ==
    /\ gc_pc = "idle"
    /\ use_compact_mode = FALSE
    /\ attempt = 0
    /\ gc_calls = <<>>
    /\ gc_sleeps = <<>>
    /\ gc_switches = <<>>
    /\ error_str = NoError
    /\ gc_result = NoResult

GRInit(p) ==
    /\ pc = p
    /\ src_i = 1
    /\ req = [s \in SourceNames |-> "notsent"]
    /\ sent = [s \in SourceNames |-> NoAnswer]
    /\ api_data = [s \in SourceNames |-> Absent]
    /\ collected_data = NoCollected
    /\ metrics = NoMetrics
    /\ narrative = "none"
    /\ report_content = NoReportContent
    /\ full_report_content = NoFullContent
    /\ report = NoReport
    /\ raised = FALSE
    /\ top_exc = ""

ColInit ==
    /\ col_pc = [c \in Collectors |-> "idle"]
    /\ col_parts = [c \in Collectors |-> <<>>]
    /\ col_record = [c \in Collectors |-> NoRecord]
    /\ col_raised = [c \in Collectors |-> FALSE]

\* one call of generate_report, with the LLM client configured or not
Init ==
    /\ client_available \in BOOLEAN
    /\ report_type = "quality_control"
    /\ GCIdle
    /\ GRInit("start")
    /\ ColInit
    /\ KBIdle
    /\ HSIdle
    /\ EMIdle
    /\ APIIdle
    /\ PSIdle

Next ==
    \/ GR_Start
    \/ \E s \in SourceNames : CC_Request(s)
    \/ \E s \in SourceNames : CC_Respond(s)
    \/ GR_Collected
    \/ GR_Extract
    \/ GC_Entry
    \/ GC_BuildPrompt
    \/ GC_InvokeSuccess
    \/ GC_InvokeError
    \/ GR_LLMReturn
    \/ GR_Template
    \/ GR_Assemble

Spec == Init /\ [][Next]_vars

\* one top-level call of GeminiClient.generate_comprehensive_report
InitLLM ==
    /\ client_available \in BOOLEAN
    /\ report_type \in ReportTypes
    /\ gc_pc = "entry"
    /\ use_compact_mode \in BOOLEAN
    /\ attempt = 0
    /\ gc_calls = <<>>
    /\ gc_sleeps = <<>>
    /\ gc_switches = <<>>
    /\ error_str = NoError
    /\ gc_result = NoResult
    /\ GRInit("idle")
    /\ ColInit
    /\ KBIdle
    /\ HSIdle
    /\ EMIdle
    /\ APIIdle
    /\ PSIdle

NextLLM ==
    \/ GC_Entry
    \/ GC_BuildPrompt
    \/ GC_InvokeSuccess
    \/ GC_InvokeError

SpecLLM == InitLLM /\ [][NextLLM]_vars

\* one call of collect_data on each collector variant
InitCollectors ==
    /\ client_available = FALSE
    /\ report_type = "quality_control"
    /\ GCIdle
    /\ GRInit("idle")
    /\ ColInit
    /\ KBIdle
    /\ HSIdle
    /\ EMIdle
    /\ APIIdle
    /\ PSIdle

NextCollectors ==
    \/ \E c \in Collectors : COL_Start(c)
    \/ \E c \in Collectors : COL_Fetch(c)
    \/ \E c \in Collectors : COL_Return(c)

SpecCollectors == InitCollectors /\ [][NextCollectors]_vars

\* _extract_real_metrics applied to a collected_data dict
MaxErrors == 2
DefectValues == {0, 5, 19, 20, 30, 31, 60, 61, 82}
QualityClasses == {"High", "Medium", "Low", "Premium"}

MetricPayloads(s) ==
    {Scalar, Empty, Array} \cup
    (CASE s = "classification" ->
            {Object(dp, "") : dp \in {Num(n) : n \in DefectValues} \cup {Missing, NotNumber}}
       [] s = "quality" -> {Object(Missing, qc) : qc \in QualityClasses \cup {""}}
       [] OTHER -> {Object(Missing, "")})

\* values of collected_data[s]: None, an error entry, a payload
MetricEntries(s) == {Absent, ErrorEntry("HTTP 500")} \cup {PayloadEntry(p) : p \in MetricPayloads(s)}

RECURSIVE ErrorList(_)
ErrorList(k) == IF k = 0 THEN <<>> ELSE Append(ErrorList(k - 1), "Classification data not available")

InitMetrics ==
    /\ client_available = FALSE
    /\ report_type = "quality_control"
    /\ GCIdle
    /\ ColInit
    /\ KBIdle
    /\ HSIdle
    /\ EMIdle
    /\ APIIdle
    /\ PSIdle
    /\ pc = "extract"
    /\ src_i = 1
    /\ req = [s \in SourceNames |-> "notsent"]
    /\ sent = [s \in SourceNames |-> NoAnswer]
    /\ api_data = [s \in SourceNames |-> Absent]
    /\ \E entries \in [SourceNames -> UNION {MetricEntries(s) : s \in SourceNames}] :
         /\ \A s \in SourceNames : entries[s] \in MetricEntries(s)
         /\ \E k \in 0..MaxErrors :
              collected_data = [entries |-> entries, collection_errors |-> ErrorList(k)]
    /\ metrics = NoMetrics
    /\ narrative = "none"
    /\ report_content = NoReportContent
    /\ full_report_content = NoFullContent
    /\ report = NoReport
    /\ raised = FALSE
    /\ top_exc = ""

NextMetrics == GR_Extract

SpecMetrics == InitMetrics /\ [][NextMetrics]_vars

\* generate_report from the return of collect_current_data on, without LLM
\* client: extraction, the template report and the assembly
ReportAnswers(s) ==
    {[kind |-> "ok", status |-> 200, payload |-> p] : p \in MetricPayloads(s)}
    \cup {[kind |-> "non200", status |-> 500, payload |-> NoPayload],
          [kind |-> "exception", status |-> 0, payload |-> NoPayload]}

InitReport ==
    /\ client_available = FALSE
    /\ report_type = "quality_control"
    /\ GCIdle
    /\ ColInit
    /\ KBIdle
    /\ HSIdle
    /\ EMIdle
    /\ APIIdle
    /\ PSIdle
    /\ pc = "extract"
    /\ src_i = Len(data_sources) + 1
    /\ req = [s \in SourceNames |-> "done"]
    /\ sent \in [SourceNames -> UNION {ReportAnswers(s) : s \in SourceNames}]
    /\ \A s \in SourceNames : sent[s] \in ReportAnswers(s)
    /\ api_data = [s \in SourceNames |-> SourceEntry(sent[s])]
    /\ collected_data = _collect_comprehensive_data(api_data)
    /\ metrics = NoMetrics
    /\ narrative = "none"
    /\ report_content = NoReportContent
    /\ full_report_content = NoFullContent
    /\ report = NoReport
    /\ raised = FALSE
    /\ top_exc = ""

NextReport ==
    \/ GR_Extract
    \/ GR_Template
    \/ GR_Assemble

SpecReport == InitReport /\ [][NextReport]_vars

\* one request to POST /api/reports/generate of either application, after a
\* startup that did or did not construct the generator. The generator reads
\* neither the application nor the report type of the request, so its runs
\* with an LLM client are explored for one of the requests that reach it
\* and its runs without one for all of them.
InitAPI ==
    /\ api_module \in ApiModules
    /\ generator_ready \in BOOLEAN
    /\ request_type \in RequestTypes
    /\ client_available \in (IF api_module = "report_api" /\ request_type = "qc" /\ generator_ready
                                THEN BOOLEAN ELSE {FALSE})
    /\ report_type = "quality_control"
    /\ GCIdle
    /\ GRInit("idle")
    /\ ColInit
    /\ KBIdle
    /\ HSIdle
    /\ EMIdle
    /\ PSIdle
    /\ api_pc = "received"
    /\ http_status = 0
    /\ envelope = NoEnvelope

NextAPI ==
    \/ API_Reject
    \/ API_Invoke
    \/ GR_Start
    \/ \E s \in SourceNames : CC_Request(s)
    \/ \E s \in SourceNames : CC_Respond(s)
    \/ GR_Collected
    \/ GR_Extract
    \/ GC_Entry
    \/ GC_BuildPrompt
    \/ GC_InvokeSuccess
    \/ GC_InvokeError
    \/ GR_LLMReturn
    \/ GR_Template
    \/ GR_Assemble
    \/ API_Respond

SpecAPI == InitAPI /\ [][NextAPI]_vars

\* longest content, in lines
MaxLines == 4

\* lines an LLM response is made of: a blank line, a report title, two texts
\* with and without list marker, and the headers of a text section, of a
\* second text section and of a list section
LineTokens ==
    {BlankLine, TitleLine,
     TextLine("x", FALSE), TextLine("y", FALSE), TextLine("x", TRUE), TextLine("y", TRUE),
     HeaderLine("Executive Summary", {"executive", "summary"}),
     HeaderLine("Risk Analysis", {"risk", "analysis"}),
     HeaderLine("Recommendations", {"recommendations"})}

Contents == UNION {[1..n -> LineTokens] : n \in 0..MaxLines}

\* one call of _parse_llm_content
InitParse ==
    /\ client_available = FALSE
    /\ report_type = "quality_control"
    /\ GCIdle
    /\ GRInit("idle")
    /\ ColInit
    /\ KBIdle
    /\ HSIdle
    /\ EMIdle
    /\ APIIdle
    /\ ps_content \in Contents
    /\ ps_lines = <<>>
    /\ ps_i = 0
    /\ current_section = "none"
    /\ current_content = <<>>
    /\ sections = EmptySections
    /\ ps_pc = "clean"

NextParse ==
    \/ PS_Clean
    \/ PS_Line
    \/ PS_Return

SpecParse == InitParse /\ [][NextParse]_vars

\* a KnowledgeBaseManager is constructed over a vector store that holds the
\* documents of earlier runs; documents are added, then the store is
\* searched or cleaned
InitKB ==
    /\ client_available = FALSE
    /\ report_type = "quality_control"
    /\ GCIdle
    /\ GRInit("idle")
    /\ ColInit
    /\ embedding_model \in BOOLEAN
    /\ chroma_client \in BOOLEAN
    /\ \E n \in 0..MaxDocs :
         /\ kb_next_id = n + 1
         /\ kb_store \in StoresOf(n)
    /\ kb_pc = "open"
    /\ kb_result = NoKBResult
    /\ kb_raised = FALSE
    /\ HSIdle
    /\ EMIdle
    /\ APIIdle
    /\ PSIdle

NextKB ==
    \/ KB_AddDocumentation
    \/ KB_AddHistoricalData
    \/ KB_Search
    \/ KB_Cleanup

SpecKB == InitKB /\ [][NextKB]_vars

\* collect_data and clear_history calls on one collector object
InitHistory ==
    /\ client_available = FALSE
    /\ report_type = "quality_control"
    /\ GCIdle
    /\ GRInit("idle")
    /\ ColInit
    /\ KBIdle
    /\ hs_collector \in Collectors
    /\ hs_started = 0
    /\ hs_inflight = {}
    /\ hs_history = <<>>
    /\ hs_completed = <<>>
    /\ hs_last = NoCall
    /\ hs_clock = 0
    /\ hs_ts = <<>>
    /\ EMIdle
    /\ APIIdle
    /\ PSIdle

NextHistory ==
    \/ HS_Start
    \/ \E n \in 1..MaxCollects : HS_Complete(n)
    \/ HS_Clear

SpecHistory == InitHistory /\ [][NextHistory]_vars

MaxText == 4

\* g-breve, Y-diaeresis, right double quote, acute accent (the characters of
\* the [HIGH RISK] and [SEARCH] sequences), zero-width joiner, the red-circle
\* emoji, and the letter a
TextChars == {287, 376, 8221, 180, 8205, 128308, 97}

RECURSIVE TextsOfLen(_)
TextsOfLen(n) ==
    IF n = 0 THEN {<<>>}
    ELSE {<<c>> \o t : c \in TextChars, t \in TextsOfLen(n - 1)}

Texts == UNION {TextsOfLen(n) : n \in 0..MaxText}

ReportShapes(t) ==
    { StrData(t),
      ListData(<<StrData(t), OtherData>>),
      DictData(<<"content", "count">>, <<StrData(t), OtherData>>),
      DictData(<<"report">>, <<DictData(<<"sections">>, <<ListData(<<StrData(t)>>)>>)>>) }

\* clean_report_content applied once and then again to one report structure
InitEmoji ==
    /\ client_available = FALSE
    /\ report_type = "quality_control"
    /\ GCIdle
    /\ GRInit("idle")
    /\ ColInit
    /\ KBIdle
    /\ HSIdle
    /\ APIIdle
    /\ PSIdle
    /\ \E t \in Texts : em_input \in ReportShapes(t)
    /\ em_once = NoData
    /\ em_twice = NoData
    /\ em_pc = "input"

NextEmoji ==
    \/ EM_Clean
    \/ EM_CleanAgain

SpecEmoji == InitEmoji /\ [][NextEmoji]_vars

----------------------------------------------------------------------------
(* Properties                                                               *)

TemplateNarratives == {"template", "template_emergency_content"}
LLMNarratives == {"llm", "llm_unparsed"}

\* the LLM attempt of this run has ended without a result of status "success"
LLMFailed == gc_pc = "returned" /\ (gc_result.is_none \/ gc_result.status # "success")

\* C1: generate_report never raises. Whatever the sources answered, whatever
\* the LLM client did (not available, success, error result, no result) and
\* whatever was thrown inside metric extraction, LLM-output parsing or
\* template composition, the call ends with a report object; when an
\* exception reached the outermost handler, that object is the emergency
\* report with status "error" and the captured message, otherwise it is the
\* normal report.
C1_NeverRaises ==
    /\ ~raised
    /\ pc = "done" =>
         /\ report.kind \in {"normal", "emergency"}
         /\ top_exc # "" => /\ report.kind = "emergency"
                            /\ report.status = "error"
                            /\ report.error_message = top_exc
         /\ top_exc = "" => /\ report.kind = "normal"
                            /\ report.narrative \in TemplateNarratives \cup LLMNarratives

\* a run in which metric extraction threw, the LLM client returned no result
\* and report assembly threw: the emergency report is returned
C1_Witness ==
    /\ pc = "done"
    /\ metrics.error # ""
    /\ gc_result.is_none
    /\ top_exc # ""
    /\ report.kind = "emergency"

\* C2: when the LLM client is not available, or its attempt ended without a
\* "success" result, generate_report continues with the template fallback:
\* the LLM failure never reaches the outermost handler, the report returned
\* is the normal one with template-composed sections (unless report assembly
\* itself threw afterwards), and the template is never used before the LLM
\* attempt, if any, has failed.
C2_FallbackChain ==
    /\ ~raised
    /\ top_exc # "LLM generation failed"
    /\ (pc = "template" \/ narrative \in TemplateNarratives) => (~client_available \/ LLMFailed)
    /\ (pc = "done" /\ (~client_available \/ LLMFailed) /\ top_exc = "") =>
         /\ report.kind = "normal"
         /\ report.narrative \in TemplateNarratives

\* rate-limit errors on every attempt of full and of compact mode, then the
\* template report
C2_Witness ==
    /\ pc = "done"
    /\ client_available
    /\ Len(gc_calls) = 2 * max_retries
    /\ gc_calls[Len(gc_calls)].outcome = "exception"
    /\ report.kind = "normal"
    /\ report.narrative = "template"

\* C3: on every failure path generate_comprehensive_report returns a result
\* object with status "error" and the deterministic fallback content; it
\* never returns without a result object.
C3_FailureReturnsErrorResult ==
    gc_pc = "returned" =>
        /\ ~gc_result.is_none
        /\ gc_result.status # "success" =>
             /\ gc_result.status = "error"
             /\ gc_result.content = _generate_fallback_content(report_type)

CallsInMode(m) == {i \in DOMAIN gc_calls : gc_calls[i].mode = m}
SleepsInMode(m) == {i \in DOMAIN gc_sleeps : gc_sleeps[i].mode = m}

RECURSIVE SumDelays(_, _)
SumDelays(m, i) ==
    IF i > Len(gc_sleeps) THEN 0
    ELSE (IF gc_sleeps[i].mode \in m THEN gc_sleeps[i].delay ELSE 0) + SumDelays(m, i + 1)

\* C4: the delay slept after failed attempt a is base_delay * 2^a (15, 30),
\* only after attempts that are followed by another attempt of the same
\* mode; at most max_retries invocations per mode; 45 of delay per exhausted
\* mode and 90 for a run through both modes.
C4_Backoff ==
    /\ \A i \in DOMAIN gc_sleeps :
         /\ gc_sleeps[i].after < max_retries - 1
         /\ gc_sleeps[i].delay = base_delay * (2 ^ gc_sleeps[i].after)
         /\ gc_sleeps[i].after = 0 => gc_sleeps[i].delay = 15
         /\ gc_sleeps[i].after = 1 => gc_sleeps[i].delay = 30
         /\ gc_calls[gc_sleeps[i].callno].attempt = gc_sleeps[i].after
         /\ gc_calls[gc_sleeps[i].callno].mode = gc_sleeps[i].mode
         /\ \/ gc_sleeps[i].callno = Len(gc_calls) /\ gc_pc = "attempt"
            \/ /\ gc_sleeps[i].callno < Len(gc_calls)
               /\ gc_calls[gc_sleeps[i].callno + 1].mode = gc_sleeps[i].mode
               /\ gc_calls[gc_sleeps[i].callno + 1].attempt = gc_sleeps[i].after + 1
    /\ \A m \in {"full", "compact"} :
         /\ Cardinality(CallsInMode(m)) <= max_retries
         /\ Cardinality(SleepsInMode(m)) <= max_retries - 1
         /\ SumDelays({m}, 1) <= 45
         /\ Cardinality(CallsInMode(m)) = max_retries => SumDelays({m}, 1) = 45
    /\ SumDelays({"full", "compact"}, 1) <= 90
    /\ Len(gc_calls) = 2 * max_retries => SumDelays({"full", "compact"}, 1) = 90

\* rate-limit errors throughout both modes
C4_Witness ==
    /\ gc_pc = "returned"
    /\ Len(gc_calls) = 2 * max_retries
    /\ Len(gc_sleeps) = 4
    /\ SumDelays({"full", "compact"}, 1) = 90

\* C5: at most one switch to compact mode, taken only at the rate-limit
\* error of the last (max_retries-th) full-mode attempt; full-mode
\* invocations all precede compact-mode ones; never more than
\* 2 * max_retries invocations, and the call has returned after the last one.
C5_CompactOnce ==
    /\ Len(gc_switches) <= 1
    /\ \A k \in DOMAIN gc_switches :
         /\ gc_switches[k].callno = max_retries
         /\ gc_switches[k].error.has429 \/ gc_switches[k].error.hasQuota
         /\ \A i \in 1..max_retries :
              /\ gc_calls[i].mode = "full"
              /\ gc_calls[i].attempt = i - 1
              /\ gc_calls[i].outcome = "exception"
         /\ \A i \in DOMAIN gc_calls : i > max_retries => gc_calls[i].mode = "compact"
    /\ \A i, j \in DOMAIN gc_calls : (i < j /\ gc_calls[i].mode = "compact") => gc_calls[j].mode = "compact"
    /\ (CallsInMode("full") # {} /\ CallsInMode("compact") # {}) => Len(gc_switches) = 1
    /\ Len(gc_calls) <= 2 * max_retries
    /\ (Len(gc_calls) = 2 * max_retries) => gc_pc = "returned"

\* a call that went through full mode and then through compact mode
C5_Witness ==
    /\ gc_pc = "returned"
    /\ Len(gc_switches) = 1
    /\ Cardinality(CallsInMode("full")) = max_retries
    /\ Cardinality(CallsInMode("compact")) = max_retries

LastCallFailedOther ==
    /\ gc_calls # <<>>
    /\ gc_calls[Len(gc_calls)].outcome = "exception"
    /\ ~error_str.has429
    /\ ~error_str.hasQuota

\* C6: after a model invocation that failed with an error whose text has
\* neither "429" nor "quota", the call has returned: no backoff sleep and no
\* switch to compact mode follows that invocation, and no later invocation.
C6_NoRetryOnOtherError ==
    LastCallFailedOther =>
        /\ gc_pc = "returned"
        /\ \A i \in DOMAIN gc_sleeps : gc_sleeps[i].callno # Len(gc_calls)
        /\ \A k \in DOMAIN gc_switches : gc_switches[k].callno # Len(gc_calls)

\* the error arrives at the second attempt of compact mode, after a switch
C6_Witness ==
    /\ LastCallFailedOther
    /\ gc_calls[Len(gc_calls)].mode = "compact"
    /\ gc_calls[Len(gc_calls)].attempt = 1
    /\ Len(gc_switches) = 1

\* the entries of the endpoints that failed, in the record a collector returned
FailedParts(c) == {i \in DOMAIN col_parts[c] : col_parts[c][i].answer \in ColFailures}

Failed(s) == sent[s].kind \in {"non200", "exception", "badjson"}

\* C8: collect_current_data records an entry for every source it has
\* requested: the payload as sent for a source that answered 200 with JSON,
\* an error entry for a failed one; when it returns, all four sources have
\* an entry, whichever of them failed, and _collect_comprehensive_data
\* passes the entries on unchanged.
C8_EntryPerSource ==
    /\ \A s \in SourceNames :
         req[s] = "done" =>
            /\ sent[s].kind = "ok" => api_data[s] = PayloadEntry(sent[s].payload)
            /\ Failed(s) => /\ api_data[s].kind = "error"
                            /\ api_data[s].error # ""
    /\ pc \notin {"start", "collect"} =>
         \A s \in SourceNames :
            /\ req[s] = "done"
            /\ api_data[s].kind \in {"payload", "error"}
            /\ collected_data.entries[s] = api_data[s]

\* the first and the third source failed, the second and the fourth answered
C8_Witness ==
    /\ pc = "done"
    /\ sent["forecasting"].kind = "exception"
    /\ sent["classification"].kind = "ok"
    /\ sent["quality"].kind = "non200"
    /\ sent["rl_actions"].kind = "ok"
    /\ api_data["rl_actions"] = PayloadEntry(sent["rl_actions"].payload)

Outstanding == {s \in SourceNames : req[s] = "outstanding"}

C10_ExtractAfterJoin ==
    (pc \in {"extract", "llm", "template", "assemble", "done"} \/ metrics # NoMetrics) =>
        \A s \in SourceNames :
            /\ req[s] = "done"
            /\ sent[s] # NoAnswer
            /\ api_data[s].kind # "absent"

\* metrics have been extracted in a run whose last source timed out
C10_Witness ==
    /\ metrics # NoMetrics
    /\ pc \in {"llm", "template"}
    /\ sent["rl_actions"].kind = "exception"
    /\ sent["forecasting"].kind = "ok"

\* the sources whose upstream call answered 200
Answered200 == {s \in SourceNames : sent[s].status = 200 /\ sent[s].kind = "ok"}
Extracted == pc \in {"llm", "template", "assemble", "done"}

\* C11: with K of the 4 sources having answered 200, _extract_real_metrics
\* sets collection_success_rate to K/4*100, whatever the payloads of the
\* answering sources are.
C11_SuccessRate ==
    Extracted => metrics.collection_success_rate = (Cardinality(Answered200) * 100) \div total_sources

\* the threshold table as the claim states it
StatusTable(K, E) ==
    IF K = 4 /\ E = 0 THEN "healthy"
    ELSE IF K >= 3 THEN (IF E <= 1 THEN "healthy" ELSE "degraded")
    ELSE IF K >= 2 THEN "degraded"
    ELSE "critical"

\* the entries of collected_data that extraction counts
CountedEntries ==
    {s \in SourceNames : /\ collected_data.entries[s].kind = "payload"
                         /\ collected_data.entries[s].payload.shape # "empty"}

\* C12: system_health.overall_status is the entry of the threshold table for
\* the successful sources K and the collection errors E that system_health
\* reports; when extraction ran through, K is the number of sources counted
\* and E the length of collected_data["collection_errors"].
C12_StatusTable ==
    Extracted =>
        /\ metrics.overall_status = StatusTable(metrics.successful_sources, metrics.collection_errors)
        /\ metrics.error = "" =>
             /\ metrics.successful_sources = Cardinality(CountedEntries)
             /\ metrics.collection_errors = Len(collected_data.collection_errors)

\* three sources counted and two collection errors: degraded
C12_Witness ==
    /\ Extracted
    /\ metrics.error = ""
    /\ metrics.successful_sources = 3
    /\ metrics.collection_errors = 2
    /\ metrics.overall_status = "degraded"

\* collected_data[s] is None or an error entry
NotCollected(s) == collected_data.entries[s].kind \in {"absent", "error"}

\* C13: for a source whose entry is absent or an error entry, the fields of
\* the metrics derived from that source keep their initial values (0, empty
\* mapping, no key) and the source is not among the successful ones,
\* whatever the other sources returned.
C13_SentinelDefaults ==
    Extracted =>
        /\ NotCollected("classification") =>
             /\ metrics.total_predictions = 0
             /\ metrics.defect_rates = ""
             /\ metrics.defect_probability = Missing
        /\ NotCollected("quality") => metrics.quality_scores = NoQualityScores
        /\ NotCollected("forecasting") => ~metrics.forecast_accuracy
        /\ NotCollected("rl_actions") => ~metrics.rl_performance
        /\ metrics.successful_sources <= Cardinality({s \in SourceNames : ~NotCollected(s)})

\* classification failed, quality is absent, the two others delivered objects
C13_Witness ==
    /\ Extracted
    /\ collected_data.entries["classification"].kind = "error"
    /\ collected_data.entries["quality"].kind = "absent"
    /\ metrics.successful_sources = 2
    /\ metrics.forecast_accuracy
    /\ metrics.rl_performance
    /\ metrics.defect_probability = Missing

\* the report content comes from the template fallback path and the metrics
\* show defect_probability 0.05 and quality class "High"
TemplateReportOfScenario ==
    /\ narrative \in TemplateNarratives
    /\ metrics.defect_probability = Num(5)
    /\ metrics.quality_scores.present
    /\ metrics.quality_scores.batch_quality = "High"

\* C20: a report of the template fallback path whose metrics show
\* defect_probability 0.05 and quality class "High" puts the defect risk in
\* the low bucket and the quality in the excellent bucket: extraction marks
\* low_risk and a score of at least 0.8, and the indicator table of the
\* report content, when the content has one, reads "Low Risk" and "Excellent".
C20_LowRiskExcellent ==
    TemplateReportOfScenario =>
        /\ metrics.defect_rates = "low_risk"
        /\ metrics.quality_scores.overall_score >= 80
        /\ full_report_content.kind = "full" =>
             /\ full_report_content.risk_status = "Low Risk"
             /\ full_report_content.quality_status = "Excellent"

\* the template report of a run without LLM client, with the indicator table
C20_Witness ==
    /\ pc = "done"
    /\ TemplateReportOfScenario
    /\ report.kind = "normal"
    /\ report.narrative = "template"
    /\ full_report_content.kind = "full"
    /\ full_report_content.risk_status = "Low Risk"
    /\ full_report_content.quality_status = "Excellent"

AddOps == {"add_documentation", "add_historical_data"}

C15_SortedByDistance ==
    kb_result.op = "search_relevant_context" =>
        LET res == kb_result.results
        IN /\ Len(res) = Len(kb_result.raw)
           /\ \A i \in DOMAIN kb_result.raw :
                \E j \in DOMAIN res : /\ res[j].id = kb_result.raw[i].id
                                      /\ res[j].distance = kb_result.raw[i].distance
           /\ \A j \in DOMAIN res : res[j].relevance_score = 100 - res[j].distance
           /\ \A i, j \in DOMAIN res :
                i < j => /\ res[i].distance <= res[j].distance
                         /\ res[i].relevance_score >= res[j].relevance_score

\* the index returned two results, the farther one first
C15_Witness ==
    /\ kb_result.op = "search_relevant_context"
    /\ Len(kb_result.raw) >= 2
    /\ kb_result.raw[1].distance > kb_result.raw[2].distance
    /\ kb_result.results[1].id = kb_result.raw[2].id

\* C16: with the vector index available and the cutoff computed, cleanup
\* deletes from every collection exactly the documents whose timestamp is a
\* string lexically less than the cutoff string, and leaves every other
\* document as it was.
C16_DeletesExactlyOld ==
    (chroma_client /\ kb_result.op = "cleanup_old_embeddings" /\ ~kb_raised) =>
        kb_store = {d \in kb_result.before :
                       ~(d.timestamp.t = "str" /\ LexLess(d.timestamp.s, kb_result.cutoff))}

\* the last k elements of a sequence (all of them when it is shorter)
LastOf(seq, k) == IF Len(seq) <= k THEN seq ELSE SubSeq(seq, Len(seq) - k + 1, Len(seq))

\* C17: the history of a collector that keeps one (classification, RL)
\* never holds more than max_history records, and it holds the records of
\* the most recent calls completed since the last clear_history, in the
\* order in which the calls completed, whatever the order in which
\* overlapping calls were started.
C17_BoundedFIFO ==
    HasHistory(hs_collector) =>
        /\ Len(hs_history) <= max_history
        /\ hs_history = LastOf(hs_completed, max_history)

\* more calls than max_history have completed, two of them out of the order
\* they were started in, and the oldest records have been evicted
C17_Witness ==
    /\ HasHistory(hs_collector)
    /\ Len(hs_completed) > max_history
    /\ Len(hs_history) = max_history
    /\ hs_history[1] = hs_completed[Len(hs_completed) - max_history + 1]
    /\ \E i \in DOMAIN hs_history : i > 1 /\ hs_history[i].call < hs_history[i - 1].call

\* C18: every collect_data call on every collector variant appends one
\* record to the collector's history, on success and on error alike: the
\* history has grown by one per completed call, up to max_history, and its
\* last record is the record of the call completed last.
C18_AppendsEveryResult ==
    /\ Len(hs_history) = (IF Len(hs_completed) <= max_history THEN Len(hs_completed) ELSE max_history)
    /\ hs_completed # <<>> => hs_history[Len(hs_history)] = hs_last

\* C19: cleaning the result of clean_report_content again changes nothing:
\* clean_report_content(clean_report_content(r)) = clean_report_content(r),
\* and so for clean_emojis_from_text on a string
C19_Idempotent ==
    em_pc = "twice" => em_twice = em_once

\* 'timestamp' of a record of the history
TimestampOf(r) == hs_ts[r.call]

\* C24: the records of a collector's history are in non-decreasing order of
\* their timestamp, so that the last record carries the greatest timestamp of
\* all records completed since the history was cleared
C24_HistoryInTimestampOrder ==
    /\ \A i, j \in 1..Len(hs_history) :
           i < j => TimestampOf(hs_history[i]) <= TimestampOf(hs_history[j])
    /\ hs_history # <<>> =>
           \A i \in 1..Len(hs_completed) :
               TimestampOf(hs_completed[i]) <= TimestampOf(hs_history[Len(hs_history)])

\* C25: in the metrics of a generate_report run, system_health.collection_errors
\* is the number of failed sources, total_sources - successful_sources, and
\* overall_status is "healthy" only if no source failed
C25_ErrorsCountFailedSources ==
    (Extracted /\ metrics.error = "") =>
        /\ metrics.collection_errors = total_sources - metrics.successful_sources
        /\ metrics.overall_status = "healthy" => metrics.successful_sources = total_sources

\* C21: every number the narrative sections of a template report write
\* (here: the compliance and the risk section) is a number held by the
\* metrics of that report
C21_NarrativeNumbersInSnapshot ==
    report_content.kind = "template" =>
        (report_content.compliance_status.numbers \cup report_content.risk_assessment.numbers)
            \subseteq SnapshotNumbers(metrics)

\* classification answers defect_probability 0.82, quality answers
\* quality_class "Low", forecasting and RL time out
Scenario22 ==
    /\ sent["classification"] = [kind |-> "ok", status |-> 200, payload |-> Object(Num(82), "")]
    /\ sent["quality"] = [kind |-> "ok", status |-> 200, payload |-> Object(Missing, "Low")]
    /\ sent["forecasting"].kind = "exception"
    /\ sent["rl_actions"].kind = "exception"

\* C22: in that scenario the template report has collection_success_rate
\* 50.0 and overall_status degraded or critical, and its risk assessment
\* flags critical or high risk and writes the defect probability 0.82
C22_EndToEndScenario ==
    (Scenario22 /\ report_content.kind = "template") =>
        /\ metrics.collection_success_rate = 50
        /\ metrics.overall_status \in {"degraded", "critical"}
        /\ report_content.risk_assessment.risk_level \in {"CRITICAL", "HIGH"}
        /\ metrics.defect_probability.n \in report_content.risk_assessment.numbers

\* C26: a non-emergency report agrees with system_health.successful_sources
\* in the number of sources marked "Available", in sources_successful of the
\* raw data summary and in the "Sources Successful" line of the report
\* content, and marks exactly the collected sources "Available"
C26_SourceAvailabilityConsistent ==
    report.kind = "normal" =>
        /\ Cardinality({key \in source_mapping : report.data_sources[key] = "Available"})
               = metrics.successful_sources
        /\ report.sources_successful = metrics.successful_sources
        /\ full_report_content.kind = "full" =>
               full_report_content.sources_successful = metrics.successful_sources
        /\ \A key \in source_mapping :
               report.data_sources[key] = "Available"
                   <=> MarkedSuccess(collected_data.entries[SourceOfService(key)])

\* C27: when the classification source failed, the indicator table of the
\* report content shows no defect probability and no risk bucket, and the
\* summary no risk derived from one
C27_NoDefectValueWithoutClassification ==
    (metrics.error = "" /\ collected_data.entries["classification"].kind = "error"
         /\ full_report_content.kind = "full") =>
        /\ full_report_content.defect_value = Missing
        /\ full_report_content.risk_status = ""
        /\ full_report_content.risk_description \in {"", "unknown risk level"}

\* C29: every non-emergency report has a non-empty executive_summary
C29_ExecutiveSummaryNonEmpty ==
    report.kind = "normal" => report.executive_summary # ""

\* C30: a template report of four successful sources with quality class
\* "High" and a defect probability of at most 0.3 has compliance score 100,
\* status FULLY COMPLIANT and compliant process validation
C30_FullyCompliant ==
    (/\ report_content.kind = "template"
     /\ metrics.successful_sources = total_sources
     /\ metrics.quality_scores.batch_quality = "High"
     /\ metrics.defect_probability.t = "num"
     /\ metrics.defect_probability.n <= 30) =>
        /\ report_content.compliance_status.compliance_score = 100
        /\ report_content.compliance_status.status = "FULLY COMPLIANT"
        /\ report_content.compliance_status.process_validation = "Compliant"

\* the report types the applications know: the canonical name and the aliases
KnownType(t) == t = "quality_control" \/ t \in report_type_mapping

\* C23 as stated: a request with a known report type and an initialised
\* generator is answered with HTTP 200 and a body that carries a status
\* field, whatever fails behind the generator; a request with an unknown
\* report type is answered with 400 and a request that finds no generator
\* with 503
C23_StatusCodes ==
    api_pc = "responded" =>
        /\ (KnownType(request_type) /\ generator_ready) =>
               (http_status = 200 /\ envelope.status # "none")
        /\ (~KnownType(request_type) /\ generator_ready) => http_status = 400
        /\ (KnownType(request_type) /\ ~generator_ready) => http_status = 503

\* C23, amended: every request is answered with 200 or with the one error
\* status of its application. report_api answers 400 exactly when the mapped
\* report type is not a key of report_generators, be it an unknown type or a
\* failed startup, and simple_api answers 503 exactly when it has no generator
\* and accepts every report type. Every other request is answered with 200
\* and a body with status "success" that embeds the report of the generator,
\* whatever failed upstream or in the LLM; 500 is never returned.
C23_StatusPerEndpoint ==
    api_pc = "responded" =>
        /\ api_module = "report_api" =>
               http_status = IF KnownType(request_type) /\ generator_ready THEN 200 ELSE 400
        /\ api_module = "simple_api" =>
               http_status = IF generator_ready THEN 200 ELSE 503
        /\ http_status = 200 =>
               /\ envelope.status = "success"
               /\ envelope.report = report
               /\ report # NoReport

\* a request with an alias and a working generator was answered by report_api
\* with 200 although every upstream source failed and the LLM call failed, so
\* that the embedded report is the template report over an empty snapshot
C23_Witness ==
    /\ api_pc = "responded"
    /\ api_module = "report_api"
    /\ request_type = "qc"
    /\ http_status = 200
    /\ LLMFailed
    /\ narrative = "template"
    /\ \A s \in SourceNames : Failed(s)
    /\ envelope.report.kind = "normal"

\* lines of the content that are not blank, pass none of the header tests
\* and carry the text t
ContentLinesWith(t) ==
    {i \in DOMAIN ps_content :
        ps_content[i].text = t /\ ps_content[i].words = {}}

\* sections of the result in which the text t occurs, as a line of a text
\* section or as an item of a list section
SectionsWith(t) ==
    {n \in SectionNames : \E j \in DOMAIN sections[n] : sections[n][j] = t}

\* C28: _parse_llm_content loses no content. When it has returned, every
\* non-blank line of the response that contains none of the section keywords
\* (and whose text the response has on one line only) is found in exactly
\* one section of the result, as text or as a list item, also when a section
\* header occurs twice and when lines with and without list marker are mixed
\* in a list section.
C28_NoContentLost ==
    ps_pc = "done" =>
        \A i \in DOMAIN ps_content :
            (/\ ps_content[i].text # ""
             /\ ps_content[i].words = {}
             /\ Cardinality(ContentLinesWith(ps_content[i].text)) = 1)
            => Cardinality(SectionsWith(ps_content[i].text)) = 1

====
